---- MODULE Spec2Model ----
(***************************************************************************)
(* A model of the sso service (aguss787/sso): signed typed tokens, the     *)
(* OAuth2 authorization-code grant with single-use codes kept in a         *)
(* key-value store, and the clock both depend on.                          *)
(*                                                                         *)
(* A handler is split at its suspension points (.await on the database or  *)
(* on the key-value store): between two of them the code touches no shared *)
(* state, so the part between them is one action. The one command a        *)
(* handler sends to the store takes effect at the end of its .await.       *)
(***************************************************************************)
EXTENDS Integers, Sequences, FiniteSets, TLC

VARIABLES
    now,      \* the wall clock, in seconds (chrono::Utc::now().timestamp())
    kv,       \* the key-value store: the set of records that have not expired
    users,    \* the users table: user id -> row
    tokens,   \* the token strings the service has handed out so far
    calls,    \* per task: the access_token call it is inside, and where
    last,     \* the response a handler has returned and its client not yet read
    inbox,    \* the request given beforehand, when the inputs are drawn at the start
    marks,    \* history: the set-if-absent calls of step 8, in their order
    grants,   \* history: the codes access_token returned a token for, in order
    denied,   \* history: the unredeemed codes presented with a wrong client secret
    hits,     \* history: the check_rate_limit calls that have returned, in order
    io,       \* per task: the external calls of the request it serves or has just answered
    twin      \* a second store, for one function run beside another

vars == <<now, kv, users, tokens, calls, last, inbox, marks, grants, denied, hits, io, twin>>

----------------------------------------------------------------------------
(* Bounds of the model. *)

\* concurrent tasks serving the token endpoint
NumProcs == 2
\* tokens that login and the activation e-mail may hand out
MaxIssued == 1
\* access_token calls that reach step 8
MaxRedemptions == 2

\* the bits of a usize: 64 in the program, fewer here, enough for every
\* instant and expiry of the model
UsizeBits == 16

\* check_rate_limit calls
MaxHits == 3

Procs == 1..NumProcs

\* The instants at which requests arrive: issuance (0), around the expiry of
\* a usage record written at 0 (299, 300) and around the end of the validity
\* of a code issued at 0 (360, 361).
Instants == {0, 299, 300, 360, 361}

----------------------------------------------------------------------------
(* Program constants. *)

\* chrono::Duration::minutes(5), the authorization code's expiry
AuthorizationCodeExpiry == 300
\* chrono::Duration::minutes(60), the access token's expiry
AccessTokenExpiry == 3600
\* chrono::Duration::minutes(15), the activation code's expiry
ActivationCodeExpiry == 900
\* SetExpiry::EX(60 * 5), the usage record's time to live
UsageRecordTtl == 300
\* jsonwebtoken::Validation::new leaves leeway at its default, 60 seconds
Leeway == 60

Issuer == "agus.dev sso"
\* the one secret of the deployment, and a secret it does not have
JwtSecret == "secret"
OtherSecret == "other-secret"

None == <<>>
Some(x) == <<x>>

----------------------------------------------------------------------------
(* The clients table (read-only to the service) and the request inputs. *)

\* argon2 hash of a secret: verify_password recomputes it from the candidate
HashPassword(secret) == <<"argon2", secret>>

ClientRows ==
    { [client_id |-> "c1", client_secret |-> HashPassword("s1"),
       redirect_uri |-> "https://app/cb"],
      [client_id |-> "c2", client_secret |-> HashPassword("s2"),
       redirect_uri |-> "https://other/cb"] }

ClientIds == {"c1", "c2", "cX"}
ClientSecrets == {"s1", "s2"}
RedirectUris == {"https://app/cb", "https://other/cb"}
GrantTypes == {"authorization_code", "refresh_token"}

\* The users table at startup: two activated users and one who is not.
UserIds == {"u1", "u2", "u3"}
Usernames == {"alice", "bob", "carol", "dave"}
Passwords == {"pw", "bad"}

InitUsers ==
    [id \in UserIds |->
        CASE id = "u1" -> [username |-> "alice", email |-> "alice@x",
                           password |-> HashPassword("pw"), activated_at |-> Some(0)]
          [] id = "u2" -> [username |-> "bob", email |-> "bob@x",
                           password |-> HashPassword("pw"), activated_at |-> Some(0)]
          [] id = "u3" -> [username |-> "carol", email |-> "carol@x",
                           password |-> HashPassword("pw"), activated_at |-> None]]

\* Client::find_by_client_id: the row, or None
find_by_client_id(client_id) ==
    IF \E c \in ClientRows : c.client_id = client_id
    THEN Some(CHOOSE c \in ClientRows : c.client_id = client_id)
    ELSE None

\* Client::is_secret_match
is_secret_match(client, secret) == client.client_secret = HashPassword(secret)

----------------------------------------------------------------------------
(* The claims codec: jwt.rs over the jsonwebtoken crate. *)

JwtTypes == {"AuthorizationCode", "AccessToken", "RefreshToken", "ActivationCode"}

\* #[serde(rename_all = "snake_case")] on JwtType, to the wire
JwtTypeToWire(jwt_type) ==
    CASE jwt_type = "AuthorizationCode" -> "authorization_code"
      [] jwt_type = "AccessToken" -> "access_token"
      [] jwt_type = "RefreshToken" -> "refresh_token"
      [] jwt_type = "ActivationCode" -> "activation_code"

\* and from the wire: the variant, or None for a name of no variant
JwtTypeFromWire(name) ==
    IF \E v \in JwtTypes : JwtTypeToWire(v) = name
    THEN Some(CHOOSE v \in JwtTypes : JwtTypeToWire(v) = name)
    ELSE None

\* i64 as usize, u64: the value modulo 2^bits
AsUnsigned(x) == x % (2 ^ UsizeBits)

\* whether iat + exp.num_seconds() as usize overflows a usize
ClaimsNewOverflows(exp, t) == AsUnsigned(t) + AsUnsigned(exp) >= 2 ^ UsizeBits

\* Claims::new at instant t, exp being the duration's whole seconds; the sum
\* wraps where it overflows (a build with overflow checks panics there instead)
ClaimsNew(jwt_type, aud, sub, exp, t) ==
    [jwt_type |-> jwt_type, aud |-> aud,
     exp |-> AsUnsigned(AsUnsigned(t) + AsUnsigned(exp)), iat |-> AsUnsigned(t),
     iss |-> Issuer, sub |-> sub]

ClaimFields == {"jwt_type", "aud", "exp", "iat", "iss", "sub"}

\* #[derive(Serialize)] on Claims: the JSON object of the payload
Serialize(claims) ==
    [jwt_type |-> JwtTypeToWire(claims.jwt_type), aud |-> claims.aud, exp |-> claims.exp,
     iat |-> claims.iat, iss |-> claims.iss, sub |-> claims.sub]

\* Claims read with aud and iss taken from each other's field
DeserializeSwapped(payload) ==
    IF ~(ClaimFields \subseteq DOMAIN payload) THEN [ok |-> FALSE]
    ELSE IF JwtTypeFromWire(payload.jwt_type) = None THEN [ok |-> FALSE]
    ELSE [ok |-> TRUE,
          claims |-> [jwt_type |-> JwtTypeFromWire(payload.jwt_type)[1], aud |-> payload.iss,
                      exp |-> payload.exp, iat |-> payload.iat, iss |-> payload.aud,
                      sub |-> payload.sub]]

\* #[derive(Deserialize)] on Claims: every field is required, and jwt_type
\* names a variant
Deserialize(payload) ==
    IF ~(ClaimFields \subseteq DOMAIN payload) THEN [ok |-> FALSE]
    ELSE IF JwtTypeFromWire(payload.jwt_type) = None THEN [ok |-> FALSE]
    ELSE [ok |-> TRUE,
          claims |-> [jwt_type |-> JwtTypeFromWire(payload.jwt_type)[1], aud |-> payload.aud,
                      exp |-> payload.exp, iat |-> payload.iat, iss |-> payload.iss,
                      sub |-> payload.sub]]

\* HMAC of header and payload under a secret
Hmac(alg, secret, payload) == <<alg, secret, payload>>

\* jsonwebtoken::encode with Header::new(alg): header.payload.signature
Encode(alg, claims, secret) ==
    [shape |-> "jwt", alg |-> alg, payload |-> Serialize(claims),
     sig |-> Hmac(alg, secret, Serialize(claims))]

\* JwtSigner::sign
sign(claims) == Encode("HS256", claims, JwtSecret)

\* a string that is not header.payload.signature
NoDotsToken ==
    [shape |-> "no_dots", alg |-> "", payload |-> None, sig |-> None]

\* three parts, the first of which is not the base64 of a header
BadHeaderToken ==
    [shape |-> "bad_base64", alg |-> "", payload |-> None, sig |-> None]

\* decode with the signature not verified (Validation::insecure_disable_signature_validation)
DecodeUnverified(token, secret, t) ==
    IF token.shape = "no_dots" THEN [ok |-> FALSE, kind |-> "InvalidToken"]
    ELSE IF token.shape = "bad_base64" THEN [ok |-> FALSE, kind |-> "Base64"]
    ELSE IF token.alg # "HS256" THEN [ok |-> FALSE, kind |-> "InvalidAlgorithm"]
    ELSE IF ~Deserialize(token.payload).ok THEN [ok |-> FALSE, kind |-> "Json"]
    ELSE IF token.payload.exp < t - Leeway THEN [ok |-> FALSE, kind |-> "ExpiredSignature"]
    ELSE IF token.payload.iss # Issuer THEN [ok |-> FALSE, kind |-> "InvalidIssuer"]
    ELSE [ok |-> TRUE, claims |-> Deserialize(token.payload).claims]

\* decode under a Validation whose leeway is set to 0
DecodeNoLeeway(token, secret, t) ==
    IF token.shape = "no_dots" THEN [ok |-> FALSE, kind |-> "InvalidToken"]
    ELSE IF token.shape = "bad_base64" THEN [ok |-> FALSE, kind |-> "Base64"]
    ELSE IF token.alg # "HS256" THEN [ok |-> FALSE, kind |-> "InvalidAlgorithm"]
    ELSE IF token.sig # Hmac(token.alg, secret, token.payload)
        THEN [ok |-> FALSE, kind |-> "InvalidSignature"]
    ELSE IF ~Deserialize(token.payload).ok THEN [ok |-> FALSE, kind |-> "Json"]
    ELSE IF token.payload.exp < t THEN [ok |-> FALSE, kind |-> "ExpiredSignature"]
    ELSE IF token.payload.iss # Issuer THEN [ok |-> FALSE, kind |-> "InvalidIssuer"]
    ELSE [ok |-> TRUE, claims |-> Deserialize(token.payload).claims]

\* jsonwebtoken::decode under the Validation of JwtSigner::verify, at instant t:
\* the token's three parts, its header, its algorithm, its signature, the
\* payload as Claims, then exp (expired when exp < now - leeway) and iss
Decode(token, secret, t) ==
    IF token.shape = "no_dots" THEN [ok |-> FALSE, kind |-> "InvalidToken"]
    ELSE IF token.shape = "bad_base64" THEN [ok |-> FALSE, kind |-> "Base64"]
    ELSE IF token.alg # "HS256" THEN [ok |-> FALSE, kind |-> "InvalidAlgorithm"]
    ELSE IF token.sig # Hmac(token.alg, secret, token.payload)
        THEN [ok |-> FALSE, kind |-> "InvalidSignature"]
    ELSE IF ~Deserialize(token.payload).ok THEN [ok |-> FALSE, kind |-> "Json"]
    ELSE IF token.payload.exp < t - Leeway THEN [ok |-> FALSE, kind |-> "ExpiredSignature"]
    ELSE IF token.payload.iss # Issuer THEN [ok |-> FALSE, kind |-> "InvalidIssuer"]
    ELSE [ok |-> TRUE, claims |-> Deserialize(token.payload).claims]

\* impl From<ManualErrorHandling<jsonwebtoken::errors::Error>> for JwtVerifyError
JwtVerifyErrorFrom(kind) ==
    CASE kind = "InvalidToken" -> "InvalidToken"
      [] kind = "InvalidSignature" -> "InvalidToken"
      [] kind = "ExpiredSignature" -> "ExpiredToken"
      [] kind = "InvalidIssuer" -> "InvalidToken"
      [] kind = "InvalidAudience" -> "InvalidToken"
      [] kind = "InvalidSubject" -> "InvalidToken"
      [] kind = "ImmatureSignature" -> "InvalidToken"
      [] OTHER -> "InternalError"

\* JwtSigner::verify of a signer made with JwtSigner::new(secret), at instant t
verify_under(secret, token, t) ==
    LET d == Decode(token, secret, t)
    IN  IF d.ok THEN d ELSE [ok |-> FALSE, err |-> JwtVerifyErrorFrom(d.kind)]

\* JwtSigner::verify of the service's signer at instant t
verify(token, t) == verify_under(JwtSecret, token, t)

----------------------------------------------------------------------------
(* The key-value store: Redis SET key value NX EX ttl. *)

Live(store, t) == {r \in store : r.expires_at > t}

\* SET key value EX ttl, without NX: the key is written whatever holds it
SetEx(store, key, value, ttl, t) ==
    [store |-> {r \in Live(store, t) : r.key # key}
                   \cup {[key |-> key, value |-> value, expires_at |-> t + ttl]},
     reply |-> Some("OK")]

\* SET NX followed by EXPIRE whatever the reply: a key that is held keeps its
\* value and has its expiry set again
SetNxExRefreshing(store, key, value, ttl, t) ==
    IF \E r \in Live(store, t) : r.key = key
    THEN [store |-> {IF r.key = key THEN [r EXCEPT !.expires_at = t + ttl] ELSE r :
                        r \in Live(store, t)},
          reply |-> None]
    ELSE [store |-> Live(store, t) \cup {[key |-> key, value |-> value, expires_at |-> t + ttl]},
          reply |-> Some("OK")]

\* One atomic command: the key is written, with its expiry, only when no live
\* record holds it; the reply is OK when it was written and nil when not.
SetNxEx(store, key, value, ttl, t) ==
    IF \E r \in Live(store, t) : r.key = key
    THEN [store |-> Live(store, t), reply |-> None]
    ELSE [store |-> Live(store, t) \cup {[key |-> key, value |-> value, expires_at |-> t + ttl]},
          reply |-> Some("OK")]

----------------------------------------------------------------------------
(* Token service: tokens.rs. *)

verify_any(token, t) == verify(token, t)

\* verify_access_token without its check of the kind
verify_access_token_any_kind(token, t) == verify_any(token, t)

verify_access_token(token, t) ==
    LET r == verify_any(token, t)
    IN  IF ~r.ok THEN r
        ELSE IF r.claims.jwt_type # "AccessToken" THEN [ok |-> FALSE, err |-> "InvalidToken"]
        ELSE r

verify_activation_code(token, t) ==
    LET r == verify_any(token, t)
    IN  IF ~r.ok THEN r
        ELSE IF r.claims.jwt_type # "ActivationCode" THEN [ok |-> FALSE, err |-> "InvalidToken"]
        ELSE r

create_authorization_code(client_id, user_id, expiry, t) ==
    sign(ClaimsNew("AuthorizationCode", client_id, user_id, expiry, t))

create_access_token(client_id, user_id, expiry, t) ==
    sign(ClaimsNew("AccessToken", client_id, user_id, expiry, t))

\* the activation code given the expiry of an authorization code
create_activation_code_short(user_id, t) ==
    sign(ClaimsNew("ActivationCode", "agus.dev sso", user_id, AuthorizationCodeExpiry, t))

create_activation_code(user_id, t) ==
    sign(ClaimsNew("ActivationCode", "agus.dev sso", user_id, ActivationCodeExpiry, t))

UsageKey(token) == <<"authorization_token:", token>>

\* mark_authorization_code_as_used with the record living as long as the
\* verification's leeway
mark_authorization_code_as_used_short(store, token, t) ==
    LET r == SetNxEx(store, UsageKey(token), token, Leeway, t)
    IN  [store |-> r.store, ret |-> r.reply # None]

\* mark_authorization_code_as_used with a connection at hand: the store after
\* the command, and result.is_some()
mark_authorization_code_as_used(store, token, t) ==
    LET r == SetNxEx(store, UsageKey(token), token, UsageRecordTtl, t)
    IN  [store |-> r.store, ret |-> r.reply # None]

----------------------------------------------------------------------------
(* OAuth2 service: oauth2.rs. *)

Err(e) == [ok |-> FALSE, err |-> e]

\* what an error response carries: the status and the two members of
\* OauthErrorResponse (no error member: the body is empty)
Wire(status, error, error_description) ==
    [status |-> status, error |-> error, error_description |-> error_description]

\* the six invalid_grant errors answered without a description
AccessTokenErrorUndescribed(err) ==
    CASE err = "UnsupportedGrantType" -> Wire(400, Some("unsupported_grant_type"), None)
      [] err = "ClientAuthenticationFailed" -> Wire(401, Some("invalid_client"), None)
      [] err = "InternalError" -> Wire(500, None, None)
      [] OTHER -> Wire(400, Some("invalid_grant"), None)

\* impl IntoResponse for AccessTokenError, with InvalidToken(e) named by e;
\* InternalError is impl IntoResponse for InternalError: 500 and an empty body
AccessTokenErrorIntoResponse(err) ==
    CASE err = "UnsupportedGrantType" -> Wire(400, Some("unsupported_grant_type"), None)
      [] err = "ClientAuthenticationFailed" -> Wire(401, Some("invalid_client"), None)
      [] err = "TokenTypeMismatch" ->
            Wire(400, Some("invalid_grant"), Some("token type mismatch"))
      [] err = "TokenAudienceMismatch" ->
            Wire(400, Some("invalid_grant"), Some("token audience mismatch"))
      [] err = "RedirectUriMismatch" ->
            Wire(400, Some("invalid_grant"), Some("redirect uri mismatch"))
      [] err = "AuthorizationCodeUsed" ->
            Wire(400, Some("invalid_grant"), Some("authorization code already used"))
      [] err = "InvalidToken" -> Wire(400, Some("invalid_grant"), Some("invalid token"))
      [] err = "ExpiredToken" -> Wire(400, Some("invalid_grant"), Some("expired token"))
      [] err = "InternalError" -> Wire(500, None, None)

\* the code made with its two identifiers in each other's place
oauth2_create_authorization_code_swapped(client_id, user_id, t) ==
    create_authorization_code(user_id, client_id, AuthorizationCodeExpiry, t)

\* Oauth2Service::create_authorization_code
oauth2_create_authorization_code(client_id, user_id, t) ==
    create_authorization_code(client_id, user_id, AuthorizationCodeExpiry, t)

\* authorization_code_flow without the comparison of aud and client_id
authorization_code_checks_any_audience(claims, client, params) ==
    IF claims.jwt_type # "AuthorizationCode" THEN Err("TokenTypeMismatch")
    ELSE IF params.redirect_uri # client.redirect_uri THEN Err("RedirectUriMismatch")
    ELSE [ok |-> TRUE, claims |-> claims]

\* authorization_code_flow up to its first .await: the checks of the claims
authorization_code_checks(claims, client, params) ==
    IF claims.jwt_type # "AuthorizationCode" THEN Err("TokenTypeMismatch")
    ELSE IF claims.aud # params.client_id THEN Err("TokenAudienceMismatch")
    ELSE IF params.redirect_uri # client.redirect_uri THEN Err("RedirectUriMismatch")
    ELSE [ok |-> TRUE, claims |-> claims]

\* access_token with the secret never compared
access_token_checks_no_secret(params, db_ok, t) ==
    IF ~db_ok THEN Err("InternalError")
    ELSE LET found == find_by_client_id(params.client_id)
         IN  IF found = None THEN Err("ClientAuthenticationFailed")
             ELSE LET v == verify_any(params.code, t)
                  IN  IF ~v.ok THEN Err(v.err)
                      ELSE IF params.grant_type # "authorization_code"
                          THEN Err("UnsupportedGrantType")
                      ELSE authorization_code_checks(v.claims, found[1], params)

\* access_token with the code verified before the client is authenticated
access_token_checks_token_first(params, db_ok, t) ==
    IF ~db_ok THEN Err("InternalError")
    ELSE LET v == verify_any(params.code, t)
             found == find_by_client_id(params.client_id)
         IN  IF ~v.ok THEN Err(v.err)
             ELSE IF found = None THEN Err("ClientAuthenticationFailed")
             ELSE IF ~is_secret_match(found[1], params.client_secret)
                 THEN Err("ClientAuthenticationFailed")
             ELSE IF params.grant_type # "authorization_code"
                 THEN Err("UnsupportedGrantType")
             ELSE authorization_code_checks(v.claims, found[1], params)

\* access_token up to the first .await of authorization_code_flow, at instant
\* t; db_ok is whether the pool and the query of get_by_client_id worked
access_token_checks(params, db_ok, t) ==
    IF ~db_ok THEN Err("InternalError")
    ELSE LET found == find_by_client_id(params.client_id)
         IN  IF found = None THEN Err("ClientAuthenticationFailed")
             ELSE IF ~is_secret_match(found[1], params.client_secret)
                 THEN Err("ClientAuthenticationFailed")
             ELSE LET v == verify_any(params.code, t)
                  IN  IF ~v.ok THEN Err(v.err)
                      ELSE IF params.grant_type # "authorization_code"
                          THEN Err("UnsupportedGrantType")
                      ELSE authorization_code_checks(v.claims, found[1], params)

\* the AccessToken minted with the code's expiry and for the code's audience
access_token_response_as_code(params, claims, t) ==
    [access_token |-> create_access_token(claims.aud, claims.sub, AuthorizationCodeExpiry, t),
     token_type |-> "Bearer",
     expires_in |-> AuthorizationCodeExpiry,
     refresh_token |-> None,
     scope |-> None]

\* authorization_code_flow after the code is marked: the AccessToken returned
access_token_response(params, claims, t) ==
    [access_token |-> create_access_token(params.client_id, claims.sub, AccessTokenExpiry, t),
     token_type |-> "Bearer",
     expires_in |-> AccessTokenExpiry,
     refresh_token |-> None,
     scope |-> None]

----------------------------------------------------------------------------
(* User service: users.rs. *)

\* users::password::verify_password
verify_password(password, hash) == hash = HashPassword(password)

\* User::find_by_username: the row with its id, or None
find_by_username(table, username) ==
    IF \E id \in DOMAIN table : table[id].username = username
    THEN LET id == CHOOSE i \in DOMAIN table : table[i].username = username
         IN  Some([id |-> id, username |-> table[id].username, email |-> table[id].email,
                   password |-> table[id].password, activated_at |-> table[id].activated_at])
    ELSE None

\* validate_and_return looking at the activation before the password
validate_and_return_activation_first(table, username, password, db_ok) ==
    IF ~db_ok THEN Err("InternalError")
    ELSE LET user == find_by_username(table, username)
         IN  IF user = None THEN Err("UserNotFound")
             ELSE IF user[1].activated_at = None THEN Err("NotActivated")
             ELSE IF ~verify_password(password, user[1].password) THEN Err("InvalidPassword")
             ELSE [ok |-> TRUE, user |-> user[1]]

\* UserService::validate_and_return
validate_and_return(table, username, password, db_ok) ==
    IF ~db_ok THEN Err("InternalError")
    ELSE LET user == find_by_username(table, username)
         IN  IF user = None THEN Err("UserNotFound")
             ELSE IF ~verify_password(password, user[1].password) THEN Err("InvalidPassword")
             ELSE IF user[1].activated_at = None THEN Err("NotActivated")
             ELSE [ok |-> TRUE, user |-> user[1]]

\* the closure login_uri of routes::login: where a failed login is sent back
login_uri(error, req) ==
    <<"/oauth2/login?error=", error, "&client_id=", req.client_id,
      "&redirect_uri=", req.redirect_uri>>

\* routes::login with the code made even when the password does not verify
login_any_password(table, req, clients_ok, users_ok, sign_ok, t) ==
    IF ~clients_ok THEN [status |-> "500", code |-> None]
    ELSE LET client == find_by_client_id(req.client_id)
             user == find_by_username(table, req.username)
         IN  IF client = None THEN [status |-> "400 client_id is invalid", code |-> None]
             ELSE IF req.redirect_uri # client[1].redirect_uri
                 THEN [status |-> "400 redirect_uri mismatch", code |-> None]
             ELSE IF ~users_ok \/ ~sign_ok THEN [status |-> "500", code |-> None]
             ELSE IF user = None THEN [status |-> "303 invalid_credentials", code |-> None]
             ELSE IF user[1].activated_at = None
                 THEN [status |-> "303 not_activated", code |-> None]
             ELSE [status |-> "303 redirect_uri",
                   code |-> Some(oauth2_create_authorization_code(
                                     req.client_id, user[1].id, t))]

\* routes::login: the response, with the authorization code when it redirects
\* back to the client. clients_ok and users_ok are whether the two queries
\* worked, sign_ok whether create_authorization_code returned Ok.
login(table, req, clients_ok, users_ok, sign_ok, t) ==
    IF ~clients_ok THEN [status |-> "500", code |-> None]
    ELSE LET client == find_by_client_id(req.client_id)
         IN  IF client = None THEN [status |-> "400 client_id is invalid", code |-> None]
             ELSE IF req.redirect_uri # client[1].redirect_uri
                 THEN [status |-> "400 redirect_uri mismatch", code |-> None]
             ELSE LET v == validate_and_return(table, req.username, req.password, users_ok)
                  IN  IF v.ok /\ ~sign_ok THEN [status |-> "500", code |-> None]
                      ELSE IF v.ok
                      THEN [status |-> "303 redirect_uri",
                            code |-> Some(oauth2_create_authorization_code(
                                              req.client_id, v.user.id, t))]
                      ELSE CASE v.err = "UserNotFound" ->
                                    [status |-> "303 invalid_credentials", code |-> None]
                             [] v.err = "InvalidPassword" ->
                                    [status |-> "303 invalid_credentials", code |-> None]
                             [] v.err = "NotActivated" ->
                                    [status |-> "303 not_activated", code |-> None]
                             [] OTHER -> [status |-> "500", code |-> None]

----------------------------------------------------------------------------
(* Handlers of routes.rs behind the token checks: profile and activate. *)

\* impl IntoResponse for JwtVerifyError
JwtVerifyErrorResponse(err) ==
    CASE err = "InvalidToken" -> "401 invalid token"
      [] err = "ExpiredToken" -> "401 expired token"
      [] OTHER -> "500"

\* routes::profile, given the bearer token: the status, and the profile on 200
profile(table, token, db_ok, t) ==
    LET v == verify_access_token(token, t)
    IN  IF ~v.ok THEN [status |-> JwtVerifyErrorResponse(v.err), body |-> None]
        ELSE IF ~db_ok THEN [status |-> "500", body |-> None]
        ELSE IF v.claims.sub \notin DOMAIN table
            THEN [status |-> "401 user not found", body |-> None]
        ELSE [status |-> "200",
              body |-> Some([username |-> table[v.claims.sub].username,
                             email |-> table[v.claims.sub].email])]

\* User::activate without the filter activated_at.is_null()
user_activate_always(table, id, t) ==
    [i \in DOMAIN table |->
        IF i = id THEN [table[i] EXCEPT !.activated_at = Some(t)] ELSE table[i]]

\* User::activate: activated_at is set where it is null
user_activate(table, id, t) ==
    [i \in DOMAIN table |->
        IF i = id /\ table[i].activated_at = None
        THEN [table[i] EXCEPT !.activated_at = Some(t)]
        ELSE table[i]]

\* routes::activate: the status and the users table after it
activate(table, code, db_ok, t) ==
    LET v == verify_activation_code(code, t)
    IN  IF ~v.ok THEN [status |-> JwtVerifyErrorResponse(v.err), table |-> table]
        ELSE IF ~db_ok THEN [status |-> "500", table |-> table]
        ELSE [status |-> "200", table |-> user_activate(table, v.claims.sub, t)]

----------------------------------------------------------------------------
(* The rate limiter, rate_limit.rs, and the handler that calls it. *)

\* chrono::Duration::num_seconds of a duration that is not negative
num_seconds(ms) == ms \div 1000

\* check_rate_limit as a sliding window: a call inside the window is refused
\* and starts the window again
check_rate_limit_sliding(store, key, ttl, t, kv_ok) ==
    LET sec == num_seconds(ttl)
    IN  IF ~kv_ok THEN [store |-> store, ret |-> "InternalError"]
        ELSE IF sec <= 0 THEN [store |-> Live(store, t), ret |-> "InternalError"]
        ELSE [store |-> SetEx(store, key, key, sec, t).store,
              ret |-> IF SetNxEx(store, key, key, sec, t).reply # None
                      THEN "true" ELSE "false"]

\* RateLimitService::check_rate_limit: SET key key NX EX sec. The pool may
\* fail to give a connection, and the store refuses an expiry of 0 seconds
\* (ERR invalid expire time); both come back as InternalError.
check_rate_limit(store, key, ttl, t, kv_ok) ==
    LET sec == num_seconds(ttl)
    IN  IF ~kv_ok THEN [store |-> store, ret |-> "InternalError"]
        ELSE IF sec <= 0 THEN [store |-> Live(store, t), ret |-> "InternalError"]
        ELSE [store |-> SetNxEx(store, key, key, sec, t).store,
              ret |-> IF SetNxEx(store, key, key, sec, t).reply # None
                      THEN "true" ELSE "false"]

RateKey(email) == <<"activation_email:", email>>

\* chrono::Duration::minutes(1), in milliseconds
ActivationEmailWindow == 60000

\* the addresses asked for: an activated user's, one not activated, nobody's
Emails == {"alice@x", "carol@x", "nobody@x"}

\* User::find_by_email: the row with its id, or None
find_by_email(table, email) ==
    IF \E id \in DOMAIN table : table[id].email = email
    THEN LET id == CHOOSE i \in DOMAIN table : table[i].email = email
         IN  Some([id |-> id, username |-> table[id].username, email |-> table[id].email,
                   activated_at |-> table[id].activated_at])
    ELSE None

\* routes::generate_and_send_activation_email for a user at instant t: the
\* status, the activation code mailed (or None) and the external calls made;
\* sign_ok is whether create_activation_code returned Ok, mail_ok whether the
\* SMTP transport sent the message
generate_and_send_activation_email(user, t, sign_ok, mail_ok) ==
    IF ~sign_ok THEN [status |-> "500", mail |-> None, io |-> <<>>]
    ELSE IF ~mail_ok
        THEN [status |-> "500", mail |-> None,
              io |-> <<[call |-> "smtp send", ok |-> FALSE]>>]
    ELSE [status |-> "200", mail |-> Some(create_activation_code(user.id, t)),
          io |-> <<[call |-> "smtp send", ok |-> TRUE]>>]

\* routes::send_activation_email behind the rate limit, from get_by_email on
send_activation_email_lookup(table, email, t, db_ok, sign_ok, mail_ok) ==
    LET user == find_by_email(table, email)
        query == <<[call |-> "get_by_email", ok |-> db_ok]>>
        sent == generate_and_send_activation_email(user[1], t, sign_ok, mail_ok)
    IN  IF ~db_ok THEN [status |-> "500", mail |-> None, io |-> query]
        ELSE IF user = None THEN [status |-> "200", mail |-> None, io |-> query]
        ELSE IF user[1].activated_at # None THEN [status |-> "200", mail |-> None, io |-> query]
        ELSE [status |-> sent.status, mail |-> sent.mail, io |-> query \o sent.io]

\* send_activation_email with the user looked up before the rate limit, the
\* slot taken only for a user who is to get a mail
send_activation_email_lookup_first(table, store, email, t, kv_ok, db_ok, sign_ok, mail_ok) ==
    LET user == find_by_email(table, email)
        r == check_rate_limit(store, RateKey(email), ActivationEmailWindow, t, kv_ok)
        query == <<[call |-> "get_by_email", ok |-> db_ok]>>
        limit == <<[call |-> "SET NX EX", ok |-> kv_ok]>>
        sent == generate_and_send_activation_email(user[1], t, sign_ok, mail_ok)
    IN  IF ~db_ok
        THEN [store |-> store, allowed |-> "true", status |-> "500", mail |-> None, io |-> query]
        ELSE IF user = None \/ user[1].activated_at # None
        THEN [store |-> store, allowed |-> "true", status |-> "200", mail |-> None, io |-> query]
        ELSE IF r.ret = "InternalError"
        THEN [store |-> r.store, allowed |-> r.ret, status |-> "500", mail |-> None,
              io |-> query \o limit]
        ELSE IF r.ret = "false"
        THEN [store |-> r.store, allowed |-> r.ret, status |-> "429", mail |-> None,
              io |-> query \o limit]
        ELSE [store |-> r.store, allowed |-> r.ret, status |-> sent.status, mail |-> sent.mail,
              io |-> query \o limit \o sent.io]

\* routes::send_activation_email: the store after it, what check_rate_limit
\* returned, the status, the activation code mailed (or None) and the
\* external calls made, in order
send_activation_email(table, store, email, t, kv_ok, db_ok, sign_ok, mail_ok) ==
    LET r == check_rate_limit(store, RateKey(email), ActivationEmailWindow, t, kv_ok)
        limit == <<[call |-> "SET NX EX", ok |-> kv_ok]>>
        rest == send_activation_email_lookup(table, email, t, db_ok, sign_ok, mail_ok)
    IN  IF r.ret = "InternalError"
        THEN [store |-> r.store, allowed |-> r.ret, status |-> "500", mail |-> None,
              io |-> limit]
        ELSE IF r.ret = "false"
        THEN [store |-> r.store, allowed |-> r.ret, status |-> "429", mail |-> None,
              io |-> limit]
        ELSE [store |-> r.store, allowed |-> r.ret, status |-> rest.status, mail |-> rest.mail,
              io |-> limit \o rest.io]

----------------------------------------------------------------------------
(* The state machine. *)

\* replay: whether a call had already succeeded for the code when this one began
Idle == [pc |-> "idle", params |-> None, claims |-> None, replay |-> FALSE]

NoResponse == [op |-> "none", result |-> "none", body |-> None]

Response(op, result, body) == [op |-> op, result |-> result, body |-> body]

\* The answer of routes::token to a failed access_token call: the error and
\* what its IntoResponse puts on the wire.
TokenError(err) == Response("token", err, Some(AccessTokenErrorIntoResponse(err)))

\* A request given beforehand, with whether the database and the key-value
\* store answer while it is served and whether signing a token succeeds.
NoRequest == [op |-> "none", req |-> None, db_ok |-> TRUE, kv_ok |-> TRUE, sign_ok |-> TRUE]

\* The codes a call has succeeded for.
Redeemed == {grants[i].code : i \in DOMAIN grants}

Init ==
    /\ now = 0
    /\ kv = {}
    /\ users = InitUsers
    /\ tokens = {}
    /\ calls = [p \in Procs |-> Idle]
    /\ last = NoResponse
    /\ inbox = NoRequest
    /\ marks = <<>>
    /\ grants = <<>>
    /\ denied = {}
    /\ hits = <<>>
    /\ io = [p \in Procs |-> <<>>]
    /\ twin = {}

\* A code forged at instant t under a secret the service does not have.
ForgedCode(t) ==
    Encode("HS256", ClaimsNew("AuthorizationCode", "c1", "u1", AuthorizationCodeExpiry, t),
           OtherSecret)

\* The tokens a client can present: the ones handed out, a forged one, and two
\* strings that are no tokens.
Presentable == tokens \cup {ForgedCode(now), NoDotsToken, BadHeaderToken}

TokenParams ==
    [grant_type : GrantTypes, code : Presentable, redirect_uri : RedirectUris,
     client_id : ClientIds, client_secret : ClientSecrets]

LoginForms ==
    [username : Usernames, password : Passwords, client_id : ClientIds,
     redirect_uri : RedirectUris]

\* An external call of a handler: a query of the database or a command to the
\* store, and whether it came back with a result.
External(call, ok) == [call |-> call, ok |-> ok]

\* The client reads the response. A response is read before the next step
\* is taken: no step reads it, so this orders nothing the service does.
Deliver ==
    /\ last # NoResponse
    /\ last' = NoResponse
    /\ io' = [p \in Procs |-> IF calls[p].pc = "idle" THEN <<>> ELSE io[p]]
    /\ UNCHANGED <<now, kv, users, tokens, calls, inbox, marks, grants, denied, hits, twin>>

\* The clock moves to the next instant; the store drops what has expired.
Tick ==
    /\ last = NoResponse
    /\ \E t \in Instants :
        /\ t > now
        /\ \A u \in Instants : u > now => t <= u
        /\ now' = t
        /\ kv' = Live(kv, t)
    /\ UNCHANGED <<users, tokens, calls, last, inbox, marks, grants, denied, hits, io, twin>>

Issued == {t \in tokens : t.payload.jwt_type \in {"authorization_code", "activation_code"}}

\* POST /oauth2/login.
Login ==
    /\ last = NoResponse
    /\ \E req \in LoginForms, db_ok \in BOOLEAN, sign_ok \in BOOLEAN :
        LET r == login(users, req, db_ok, db_ok, sign_ok, now)
        IN  /\ r.code # None => Cardinality(Issued \cup {r.code[1]}) <= MaxIssued
            /\ last' = Response("login", r.status, r.code)
            /\ tokens' = IF r.code = None THEN tokens ELSE tokens \cup {r.code[1]}
    /\ UNCHANGED <<now, kv, users, calls, inbox, marks, grants, denied, hits, io, twin>>

\* Whether a request is one with a wrong secret of a registered client, for a
\* code handed out and not yet presented at step 8.
WrongSecretFor(params) ==
    /\ find_by_client_id(params.client_id) # None
    /\ find_by_client_id(params.client_id)[1].client_secret # HashPassword(params.client_secret)
    /\ params.code \in tokens
    /\ \A i \in DOMAIN marks : marks[i].code # params.code

\* The checks with the code marked as used before the redirect_uri is compared.
AccessTokenChecksMarkFirst(p, params, db_ok) ==
    /\ LET r == access_token_checks(params, db_ok, now)
       IN  IF r.ok
           THEN /\ Len(marks) + Cardinality({q \in Procs : calls[q].pc = "mark"})
                       < MaxRedemptions
                /\ calls' = [calls EXCEPT ![p] =
                               [pc |-> "mark", params |-> params, claims |-> r.claims,
                                replay |-> params.code \in Redeemed]]
                /\ UNCHANGED <<last, kv>>
           ELSE /\ last' = TokenError(r.err)
                /\ kv' = IF r.err = "RedirectUriMismatch"
                         THEN mark_authorization_code_as_used(kv, params.code, now).store
                         ELSE kv
                /\ UNCHANGED calls
    /\ denied' = IF db_ok /\ WrongSecretFor(params)
                 THEN denied \cup {params.code} ELSE denied
    /\ io' = [io EXCEPT ![p] = <<External("get_by_client_id", db_ok)>>]
    /\ UNCHANGED <<now, users, tokens, inbox, marks, grants, hits, twin>>

\* POST /oauth2/token, from the request to the .await of step 8: the client
\* lookup reads a table nothing writes, and the checks read the clock once.
AccessTokenChecks(p, params, db_ok) ==
    /\ LET r == access_token_checks(params, db_ok, now)
       IN  IF r.ok
           THEN /\ Len(marks) + Cardinality({q \in Procs : calls[q].pc = "mark"})
                       < MaxRedemptions
                /\ calls' = [calls EXCEPT ![p] =
                               [pc |-> "mark", params |-> params, claims |-> r.claims,
                                replay |-> params.code \in Redeemed]]
                /\ UNCHANGED last
           ELSE /\ last' = TokenError(r.err)
                /\ UNCHANGED calls
    /\ denied' = IF db_ok /\ WrongSecretFor(params)
                 THEN denied \cup {params.code} ELSE denied
    /\ io' = [io EXCEPT ![p] = <<External("get_by_client_id", db_ok)>>]
    /\ UNCHANGED <<now, kv, users, tokens, inbox, marks, grants, hits, twin>>

\* A request arrives at an idle task.
AccessTokenBegin(p) ==
    /\ last = NoResponse
    /\ inbox = NoRequest
    /\ calls[p].pc = "idle"
    /\ \E params \in TokenParams, db_ok \in BOOLEAN : AccessTokenChecks(p, params, db_ok)

\* The request given beforehand arrives, all tasks being idle.
AccessTokenGiven(p) ==
    /\ last = NoResponse
    /\ inbox.op = "token"
    /\ \A q \in Procs : calls[q].pc = "idle"
    /\ AccessTokenChecks(p, inbox.req, inbox.db_ok)

\* Step 8 with the command sent a second time when the first gets no reply.
AccessTokenMarkRetrying(p) ==
    /\ last = NoResponse
    /\ calls[p].pc = "mark"
    /\ calls' = [calls EXCEPT ![p] = Idle]
    /\ \E kv_ok \in (IF inbox = NoRequest THEN BOOLEAN ELSE {inbox.kv_ok}),
          sign_ok \in (IF inbox = NoRequest THEN BOOLEAN ELSE {inbox.sign_ok}) :
        LET m == mark_authorization_code_as_used(kv, calls[p].params.code, now)
            body == access_token_response(calls[p].params, calls[p].claims, now)
        IN  /\ io' = [io EXCEPT ![p] =
                        IF kv_ok THEN Append(@, External("SET NX EX", TRUE))
                        ELSE @ \o <<External("SET NX EX", FALSE), External("SET NX EX", TRUE)>>]
            /\ kv' = m.store
            /\ marks' = Append(marks, [code |-> calls[p].params.code, at |-> now,
                                      created |-> m.ret])
            /\ IF ~m.ret
               THEN /\ last' = TokenError("AuthorizationCodeUsed")
                    /\ UNCHANGED <<tokens, grants>>
               ELSE IF ~sign_ok
               THEN /\ last' = TokenError("InternalError")
                    /\ UNCHANGED <<tokens, grants>>
               ELSE /\ last' = Response("token", "Ok", Some(body))
                    /\ tokens' = tokens \cup {body.access_token}
                    /\ grants' = Append(grants, [code |-> calls[p].params.code,
                                                 replay |-> calls[p].replay])
    /\ UNCHANGED <<now, users, inbox, denied, hits, twin>>

\* Step 8 and what follows it without another .await: the code is marked as
\* used and, when this call is the one that marked it, the access token is
\* minted and returned. kv_ok is whether the pool gave a connection and the
\* command got its reply; sign_ok is whether create_access_token returned Ok
\* (its Err goes out through ? as an internal error).
AccessTokenMark(p) ==
    /\ last = NoResponse
    /\ calls[p].pc = "mark"
    /\ calls' = [calls EXCEPT ![p] = Idle]
    /\ \E kv_ok \in (IF inbox = NoRequest THEN BOOLEAN ELSE {inbox.kv_ok}),
          sign_ok \in (IF inbox = NoRequest THEN BOOLEAN ELSE {inbox.sign_ok}) :
        /\ io' = [io EXCEPT ![p] = Append(@, External("SET NX EX", kv_ok))]
        /\ IF ~kv_ok
           THEN /\ last' = TokenError("InternalError")
                /\ UNCHANGED <<kv, tokens, marks, grants>>
           ELSE LET m == mark_authorization_code_as_used(kv, calls[p].params.code, now)
                    body == access_token_response(calls[p].params, calls[p].claims, now)
                IN  /\ kv' = m.store
                    /\ marks' = Append(marks, [code |-> calls[p].params.code, at |-> now,
                                              created |-> m.ret])
                    /\ IF ~m.ret
                       THEN /\ last' = TokenError("AuthorizationCodeUsed")
                            /\ UNCHANGED <<tokens, grants>>
                       ELSE IF ~sign_ok
                       THEN /\ last' = TokenError("InternalError")
                            /\ UNCHANGED <<tokens, grants>>
                       ELSE /\ last' = Response("token", "Ok", Some(body))
                            /\ tokens' = tokens \cup {body.access_token}
                            /\ grants' = Append(grants, [code |-> calls[p].params.code,
                                                         replay |-> calls[p].replay])
    /\ UNCHANGED <<now, users, inbox, denied, hits, twin>>

Next ==
    \/ Deliver
    \/ Tick
    \/ Login
    \/ \E p \in Procs : AccessTokenBegin(p)
    \/ \E p \in Procs : AccessTokenMark(p)

Spec == Init /\ [][Next]_vars

----------------------------------------------------------------------------
(* One request against a world drawn at the start. The world is what the    *)
(* service itself made at instant 0: login gave alice a code for c1, the    *)
(* activation e-mail gave carol an activation code, and the code either was *)
(* redeemed at once or not at all. The request comes at any of the          *)
(* instants, with every combination of its parameters.                      *)

CodeA == oauth2_create_authorization_code("c1", "u1", 0)
CodeV == create_activation_code("u3", 0)
ParamsA ==
    [grant_type |-> "authorization_code", code |-> CodeA, redirect_uri |-> "https://app/cb",
     client_id |-> "c1", client_secret |-> "s1"]
TokenA == access_token_response(ParamsA, CodeA.payload, 0).access_token

\* The world also holds, or not, the record of an activation e-mail asked for
\* carol at instant 0.
InitChecks ==
    /\ now \in Instants
    /\ users = InitUsers
    /\ calls = [p \in Procs |-> Idle]
    /\ last = NoResponse
    /\ denied = {}
    /\ io = [p \in Procs |-> <<>>]
    /\ twin = {}
    /\ \E consumed \in BOOLEAN :
        /\ tokens = IF consumed THEN {CodeA, CodeV, TokenA} ELSE {CodeA, CodeV}
        /\ marks = IF consumed
                   THEN <<[code |-> CodeA, at |-> 0, created |-> TRUE]>>
                   ELSE <<>>
        /\ grants = IF consumed THEN <<[code |-> CodeA, replay |-> FALSE]>> ELSE <<>>
        /\ \E op \in {"token", "profile", "activate", "send_activation_email", "login"},
              db_ok \in BOOLEAN, kv_ok \in BOOLEAN, sign_ok \in BOOLEAN :
            \E req \in (CASE op = "token" -> TokenParams
                          [] op = "send_activation_email" -> Emails
                          [] op = "login" -> LoginForms
                          [] OTHER -> Presentable) :
                /\ op \in {"profile", "activate"} => (kv_ok /\ sign_ok)
                /\ op = "login" => kv_ok
                /\ inbox = [op |-> op, req |-> req, db_ok |-> db_ok, kv_ok |-> kv_ok,
                            sign_ok |-> sign_ok]
        /\ \E limited \in BOOLEAN :
            /\ limited => inbox.op = "send_activation_email"
            /\ hits = IF limited
                      THEN <<[key |-> RateKey("carol@x"), window |-> ActivationEmailWindow,
                              at |-> 0, kv_ok |-> TRUE, ret |-> "true"]>>
                      ELSE <<>>
            /\ kv = Live((IF consumed
                          THEN mark_authorization_code_as_used({}, CodeA, 0).store ELSE {})
                         \cup (IF limited
                               THEN check_rate_limit({}, RateKey("carol@x"),
                                                     ActivationEmailWindow, 0, TRUE).store
                               ELSE {}),
                         now)

\* GET /profile with the request's bearer token.
ProfileGiven ==
    /\ last = NoResponse
    /\ inbox.op = "profile"
    /\ LET r == profile(users, inbox.req, inbox.db_ok, now)
       IN  last' = Response("profile", r.status, r.body)
    /\ UNCHANGED <<now, kv, users, tokens, calls, inbox, marks, grants, denied, hits, io, twin>>

\* POST /activate with the request's code.
ActivateGiven ==
    /\ last = NoResponse
    /\ inbox.op = "activate"
    /\ LET r == activate(users, inbox.req, inbox.db_ok, now)
       IN  /\ last' = Response("activate", r.status, None)
           /\ users' = r.table
    /\ UNCHANGED <<now, kv, tokens, calls, inbox, marks, grants, denied, hits, io, twin>>

\* POST /send-activation with the request's e-mail address, served by a task.
SendActivationEmailGiven(p) ==
    /\ last = NoResponse
    /\ inbox.op = "send_activation_email"
    /\ \A q \in Procs : calls[q].pc = "idle"
    /\ \E mail_ok \in BOOLEAN :
        LET r == send_activation_email(users, kv, inbox.req, now, inbox.kv_ok, inbox.db_ok,
                                       inbox.sign_ok, mail_ok)
        IN  /\ kv' = r.store
            /\ hits' = Append(hits, [key |-> RateKey(inbox.req),
                                     window |-> ActivationEmailWindow, at |-> now,
                                     kv_ok |-> inbox.kv_ok, ret |-> r.allowed])
            /\ io' = [io EXCEPT ![p] = r.io]
            /\ tokens' = IF r.mail = None THEN tokens ELSE tokens \cup {r.mail[1]}
            /\ last' = Response("send_activation_email", r.status, r.mail)
    /\ UNCHANGED <<now, users, calls, inbox, marks, grants, denied, twin>>

\* POST /oauth2/login keeping the code it hands out in the store, as a
\* service that stores its tokens would.
LoginGivenStoringCode ==
    /\ last = NoResponse
    /\ inbox.op = "login"
    /\ \E users_ok \in BOOLEAN :
        LET r == login(users, inbox.req, inbox.db_ok, users_ok, inbox.sign_ok, now)
        IN  /\ last' = Response("login", r.status, r.code)
            /\ tokens' = IF r.code = None THEN tokens ELSE tokens \cup {r.code[1]}
            /\ kv' = IF r.code = None THEN kv
                     ELSE SetEx(kv, <<"authorization_code:", r.code[1]>>, r.code[1],
                                AuthorizationCodeExpiry, now).store
    /\ UNCHANGED <<now, users, calls, inbox, marks, grants, denied, hits, io, twin>>

\* POST /oauth2/login with the request's form; the query of the users table
\* may fail where the query of the clients table worked.
LoginGiven ==
    /\ last = NoResponse
    /\ inbox.op = "login"
    /\ \E users_ok \in BOOLEAN :
        LET r == login(users, inbox.req, inbox.db_ok, users_ok, inbox.sign_ok, now)
        IN  /\ last' = Response("login", r.status, r.code)
            /\ tokens' = IF r.code = None THEN tokens ELSE tokens \cup {r.code[1]}
    /\ UNCHANGED <<now, kv, users, calls, inbox, marks, grants, denied, hits, io, twin>>

NextChecks ==
    \/ LoginGiven
    \/ \E p \in Procs : AccessTokenGiven(p)
    \/ \E p \in Procs : AccessTokenMark(p)
    \/ ProfileGiven
    \/ ActivateGiven
    \/ \E p \in Procs : SendActivationEmailGiven(p)

SpecChecks == InitChecks /\ [][NextChecks]_vars

----------------------------------------------------------------------------
(* The token functions alone: one call, at any of the instants, with its    *)
(* inputs drawn when it is made.                                            *)

\* A token string as a client can make it from a token the service signed,
\* or as another deployment can sign it.
TokenVariants ==
    {"signed", "signed_elsewhere", "tampered", "other_alg", "wrong_issuer", "missing_claim",
     "no_dots", "bad_header"}

Variant(token, variant) ==
    CASE variant = "signed" -> token
      [] variant = "signed_elsewhere" ->
            [token EXCEPT !.sig = Hmac(token.alg, OtherSecret, token.payload)]
      [] variant = "tampered" ->
            [token EXCEPT !.payload = [token.payload EXCEPT !.exp = @ + AccessTokenExpiry]]
      [] variant = "other_alg" ->
            [token EXCEPT !.alg = "HS384", !.sig = Hmac("HS384", JwtSecret, token.payload)]
      [] variant = "wrong_issuer" ->
            LET payload == [token.payload EXCEPT !.iss = "another issuer"]
            IN  [token EXCEPT !.payload = payload, !.sig = Hmac(token.alg, JwtSecret, payload)]
      [] variant = "missing_claim" ->
            LET payload == [f \in ClaimFields \ {"jwt_type"} |-> token.payload[f]]
            IN  [token EXCEPT !.payload = payload, !.sig = Hmac(token.alg, JwtSecret, payload)]
      [] variant = "no_dots" -> NoDotsToken
      [] variant = "bad_header" -> BadHeaderToken

\* chrono::Duration values, in whole seconds, an expiry can be
Durations == {-1, 0, 1, AuthorizationCodeExpiry, ActivationCodeExpiry, AccessTokenExpiry}

InitCodec ==
    /\ now \in Instants
    /\ kv = {}
    /\ users = InitUsers
    /\ tokens = {}
    /\ calls = [p \in Procs |-> Idle]
    /\ last = NoResponse
    /\ inbox = NoRequest
    /\ marks = <<>>
    /\ grants = <<>>
    /\ denied = {}
    /\ hits = <<>>
    /\ io = [p \in Procs |-> <<>>]
    /\ twin = {}

\* The three issuing calls as the handlers make them: login's
\* Oauth2Service::create_authorization_code, the mint of
\* authorization_code_flow, and create_activation_code of the activation e-mail.
CodecIssue ==
    /\ last = NoResponse
    /\ \E kind \in JwtTypes \ {"RefreshToken"}, client_id \in ClientIds, user_id \in UserIds :
        LET token ==
                CASE kind = "AuthorizationCode" ->
                        oauth2_create_authorization_code(client_id, user_id, now)
                  [] kind = "AccessToken" ->
                        access_token_response([client_id |-> client_id], [sub |-> user_id],
                                              now).access_token
                  [] kind = "ActivationCode" -> create_activation_code(user_id, now)
        IN  last' = Response("issue", kind,
                             Some([client_id |-> client_id, user_id |-> user_id,
                                   token |-> token]))
    /\ UNCHANGED <<now, kv, users, tokens, calls, inbox, marks, grants, denied, hits, io, twin>>

\* TokenService::create_authorization_code and create_access_token with the
\* expiry their caller gives; checked is whether the build checks overflow.
CodecCreate ==
    /\ last = NoResponse
    /\ \E kind \in {"AuthorizationCode", "AccessToken"}, client_id \in ClientIds,
          user_id \in UserIds, expiry \in Durations, checked \in BOOLEAN :
        IF checked /\ ClaimsNewOverflows(expiry, now)
        THEN last' = Response("create", "panic", None)
        ELSE LET token == IF kind = "AuthorizationCode"
                          THEN create_authorization_code(client_id, user_id, expiry, now)
                          ELSE create_access_token(client_id, user_id, expiry, now)
             IN  last' = Response("create", kind,
                                  Some([client_id |-> client_id, user_id |-> user_id,
                                        expiry |-> expiry, token |-> token]))
    /\ UNCHANGED <<now, kv, users, tokens, calls, inbox, marks, grants, denied, hits, io, twin>>

\* JwtSigner::sign of claims made by Claims::new at an instant not after now,
\* and JwtSigner::verify, by a signer with the same secret or another, of the
\* token or of what a client made of it.
CodecVerify ==
    /\ last = NoResponse
    /\ \E kind \in JwtTypes, aud \in ClientIds \cup {Issuer}, sub \in {"u1", "u3"},
          exp \in {AuthorizationCodeExpiry, AccessTokenExpiry},
          at \in {t \in Instants : t <= now}, variant \in TokenVariants,
          secret \in {JwtSecret, OtherSecret} :
        LET claims == ClaimsNew(kind, aud, sub, exp, at)
            token == Variant(sign(claims), variant)
            r == verify_under(secret, token, now)
        IN  last' = Response("verify", IF r.ok THEN "Ok" ELSE r.err,
                             Some([claims |-> claims, variant |-> variant, secret |-> secret,
                                   token |-> token,
                                   ret |-> IF r.ok THEN Some(r.claims) ELSE None]))
    /\ UNCHANGED <<now, kv, users, tokens, calls, inbox, marks, grants, denied, hits, io, twin>>

NextCodec ==
    \/ CodecIssue
    \/ CodecCreate
    \/ CodecVerify

SpecCodec == InitCodec /\ [][NextCodec]_vars

----------------------------------------------------------------------------
(* The rate limiter: rate_limit.rs, called alone, with any key and window. *)

RateKeys == {RateKey("a@x"), RateKey("b@x")}

\* windows given as chrono::Duration, in milliseconds; the last is the
\* Duration::minutes(1) of send_activation_email
Windows == {0, 1000, 1500, 60000}

RateInstants == {0, 1, 2, 59, 60}

CheckRateLimit ==
    /\ Len(hits) < MaxHits
    /\ \E key \in RateKeys, window \in Windows, kv_ok \in BOOLEAN :
        LET r == check_rate_limit(kv, key, window, now, kv_ok)
        IN  /\ kv' = r.store
            /\ hits' = Append(hits, [key |-> key, window |-> window, at |-> now,
                                     kv_ok |-> kv_ok, ret |-> r.ret])
    /\ UNCHANGED <<now, users, tokens, calls, last, inbox, marks, grants, denied, io, twin>>

\* The clock moves to a later instant; the store drops what has expired.
RateTick ==
    /\ \E t \in RateInstants :
        /\ t > now
        /\ now' = t
        /\ kv' = Live(kv, t)
    /\ UNCHANGED <<users, tokens, calls, last, inbox, marks, grants, denied, hits, io, twin>>

NextRate ==
    \/ CheckRateLimit
    \/ RateTick

SpecRate == Init /\ [][NextRate]_vars

----------------------------------------------------------------------------
(* The two users of SET NX EX side by side: mark_authorization_code_as_used  *)
(* on the store, and check_rate_limit with the usage key and five minutes on *)
(* a second store, given the same calls at the same instants.                *)

\* the strings marked: a code of the service, a forged one, and no token
TwinCodes == {oauth2_create_authorization_code("c1", "u1", 0), ForgedCode(0), NoDotsToken}

MarkBesideCheck ==
    /\ Len(marks) < MaxHits
    /\ \E code \in TwinCodes :
        LET m == mark_authorization_code_as_used(kv, code, now)
            c == check_rate_limit(twin, UsageKey(code), UsageRecordTtl * 1000, now, TRUE)
        IN  /\ kv' = m.store
            /\ twin' = c.store
            /\ marks' = Append(marks, [code |-> code, at |-> now, created |-> m.ret])
            /\ hits' = Append(hits, [key |-> UsageKey(code), window |-> UsageRecordTtl * 1000,
                                     at |-> now, kv_ok |-> TRUE, ret |-> c.ret])
    /\ UNCHANGED <<now, users, tokens, calls, last, inbox, grants, denied, io>>

\* The clock moves to a later instant; both stores drop what has expired.
TwinTick ==
    /\ \E t \in Instants :
        /\ t > now
        /\ now' = t
        /\ kv' = Live(kv, t)
        /\ twin' = Live(twin, t)
    /\ UNCHANGED <<users, tokens, calls, last, inbox, marks, grants, denied, hits, io>>

NextTwin ==
    \/ MarkBesideCheck
    \/ TwinTick

SpecTwin == Init /\ [][NextTwin]_vars

----------------------------------------------------------------------------
(* Registration and activation: register and activate of routes.rs, in a    *)
(* world where carol was mailed an activation code at instant 0; and         *)
(* send_activation_email served by concurrent tasks: it awaits the rate      *)
(* limiter and then the query of the user, and what follows the query        *)
(* (signing, the blocking SMTP send) has no .await.                          *)

\* the instants of requests: around the end of a slot taken at 0 (59, 60) and
\* around the end of the validity of an activation code made at 0 (960, 961)
ActivationInstants == {0, 59, 60, 960, 961}

MailInstants == {0, 1, 59, 60}

\* the id the database gives the one user who can still register
FreshId == "u4"

\* register forms that pass RegisterForm::validate
RegisterForms ==
    [username : {"dave", "alice"}, email : {"dave@x", "alice@x"}, password : {"password"}]

\* UserService::register: NewUser::save, with the unique constraints of the
\* users table; when both are violated the database names one of them, first
register(table, form, db_ok, first) ==
    LET username_taken == \E id \in DOMAIN table : table[id].username = form.username
        email_taken == \E id \in DOMAIN table : table[id].email = form.email
        row == [username |-> form.username, email |-> form.email,
                password |-> HashPassword(form.password), activated_at |-> None]
    IN  IF ~db_ok THEN [status |-> "500", table |-> table, user |-> None]
        ELSE IF username_taken /\ (~email_taken \/ first = "unique_username")
            THEN [status |-> "409 username already taken", table |-> table, user |-> None]
        ELSE IF email_taken
            THEN [status |-> "409 email already taken", table |-> table, user |-> None]
        ELSE [status |-> "201",
              table |-> [id \in DOMAIN table \cup {FreshId} |->
                            IF id = FreshId THEN row ELSE table[id]],
              user |-> Some([id |-> FreshId, username |-> row.username, email |-> row.email,
                             password |-> row.password, activated_at |-> None])]

\* POST /register: the user is saved and mailed an activation code; a failure
\* of the mail is logged and the answer is 201 all the same.
Register ==
    /\ last = NoResponse
    /\ \E form \in RegisterForms, db_ok \in BOOLEAN, sign_ok \in BOOLEAN, mail_ok \in BOOLEAN,
          first \in {"unique_username", "unique_email"} :
        LET r == register(users, form, db_ok, first)
            sent == generate_and_send_activation_email(r.user[1], now, sign_ok, mail_ok)
        IN  /\ users' = r.table
            /\ last' = Response("register", r.status, None)
            /\ tokens' = IF r.user # None /\ sent.mail # None
                         THEN tokens \cup {sent.mail[1]} ELSE tokens
    /\ UNCHANGED <<now, kv, calls, inbox, marks, grants, denied, hits, io, twin>>

\* POST /send-activation that asks the store whether the slot is taken and
\* does not take it
SendBeginNoClaim(p) ==
    /\ last = NoResponse
    /\ calls[p].pc = "idle"
    /\ Len(hits) < MaxHits
    /\ \E email \in Emails, kv_ok \in BOOLEAN :
        LET r == check_rate_limit(kv, RateKey(email), ActivationEmailWindow, now, kv_ok)
        IN  /\ kv' = kv
            /\ hits' = Append(hits, [key |-> RateKey(email), window |-> ActivationEmailWindow,
                                     at |-> now, kv_ok |-> kv_ok, ret |-> r.ret])
            /\ io' = [io EXCEPT ![p] = <<External("SET NX EX", kv_ok)>>]
            /\ IF r.ret = "true"
               THEN /\ calls' = [calls EXCEPT ![p] = [pc |-> "lookup", params |-> email,
                                                      claims |-> None, replay |-> FALSE]]
                    /\ UNCHANGED last
               ELSE /\ last' = Response("send_activation_email",
                                        IF r.ret = "false" THEN "429" ELSE "500", None)
                    /\ UNCHANGED calls
    /\ UNCHANGED <<now, users, tokens, inbox, marks, grants, denied, twin>>

\* POST /send-activation arrives at an idle task, up to the .await of
\* get_by_email: the rate limiter is asked, and the request is answered 429
\* when the slot is taken and 500 when the store fails.
SendBegin(p) ==
    /\ last = NoResponse
    /\ calls[p].pc = "idle"
    /\ Len(hits) < MaxHits
    /\ \E email \in Emails, kv_ok \in BOOLEAN :
        LET r == check_rate_limit(kv, RateKey(email), ActivationEmailWindow, now, kv_ok)
        IN  /\ kv' = r.store
            /\ hits' = Append(hits, [key |-> RateKey(email), window |-> ActivationEmailWindow,
                                     at |-> now, kv_ok |-> kv_ok, ret |-> r.ret])
            /\ io' = [io EXCEPT ![p] = <<External("SET NX EX", kv_ok)>>]
            /\ IF r.ret = "true"
               THEN /\ calls' = [calls EXCEPT ![p] = [pc |-> "lookup", params |-> email,
                                                      claims |-> None, replay |-> FALSE]]
                    /\ UNCHANGED last
               ELSE /\ last' = Response("send_activation_email",
                                        IF r.ret = "false" THEN "429" ELSE "500", None)
                    /\ UNCHANGED calls
    /\ UNCHANGED <<now, users, tokens, inbox, marks, grants, denied, twin>>

\* The query of the user and what follows it: the code is signed and mailed
\* to a user who is not activated.
SendFinish(p) ==
    /\ last = NoResponse
    /\ calls[p].pc = "lookup"
    /\ \E db_ok \in BOOLEAN, sign_ok \in BOOLEAN, mail_ok \in BOOLEAN :
        LET r == send_activation_email_lookup(users, calls[p].params, now, db_ok, sign_ok,
                                              mail_ok)
        IN  /\ last' = Response("send_activation_email", r.status, r.mail)
            /\ tokens' = IF r.mail = None THEN tokens ELSE tokens \cup {r.mail[1]}
            /\ io' = [io EXCEPT ![p] = @ \o r.io]
    /\ calls' = [calls EXCEPT ![p] = Idle]
    /\ UNCHANGED <<now, kv, users, inbox, marks, grants, denied, hits, twin>>

\* POST /activate with any code a client can present.
Activate ==
    /\ last = NoResponse
    /\ \E code \in Presentable, db_ok \in BOOLEAN :
        LET r == activate(users, code, db_ok, now)
        IN  /\ users' = r.table
            /\ last' = Response("activate", r.status, None)
    /\ UNCHANGED <<now, kv, tokens, calls, inbox, marks, grants, denied, hits, io, twin>>

\* The clock moves to the next instant; the store drops what has expired.
ActivationTick ==
    /\ last = NoResponse
    /\ \E t \in ActivationInstants :
        /\ t > now
        /\ \A u \in ActivationInstants : u > now => t <= u
        /\ now' = t
        /\ kv' = Live(kv, t)
    /\ UNCHANGED <<users, tokens, calls, last, inbox, marks, grants, denied, hits, io, twin>>

\* The clock moves to the next instant; the store drops what has expired.
MailTick ==
    /\ last = NoResponse
    /\ \E t \in MailInstants :
        /\ t > now
        /\ \A u \in MailInstants : u > now => t <= u
        /\ now' = t
        /\ kv' = Live(kv, t)
    /\ UNCHANGED <<users, tokens, calls, last, inbox, marks, grants, denied, hits, io, twin>>

\* carol has asked for an activation e-mail at instant 0 and was sent a code
InitActivation ==
    /\ now = 0
    /\ kv = send_activation_email(InitUsers, {}, "carol@x", 0, TRUE, TRUE, TRUE, TRUE).store
    /\ users = InitUsers
    /\ tokens = {send_activation_email(InitUsers, {}, "carol@x", 0, TRUE, TRUE, TRUE, TRUE).mail[1]}
    /\ calls = [p \in Procs |-> Idle]
    /\ last = NoResponse
    /\ inbox = NoRequest
    /\ marks = <<>>
    /\ grants = <<>>
    /\ denied = {}
    /\ hits = <<>>
    /\ io = [p \in Procs |-> <<>>]
    /\ twin = {}

NextActivation ==
    \/ Deliver
    \/ ActivationTick
    \/ Register
    \/ Activate

SpecActivation == InitActivation /\ [][NextActivation]_vars

NextMail ==
    \/ Deliver
    \/ MailTick
    \/ \E p \in Procs : SendBegin(p)
    \/ \E p \in Procs : SendFinish(p)

SpecMail == Init /\ [][NextMail]_vars

----------------------------------------------------------------------------
(* Internal errors: helpers.rs. Each handler step that can fail internally, *)
(* the InternalError it fails with, and the response the handler makes of   *)
(* it.                                                                      *)

\* the text a failing library call gives; InternalError carries it ({0})
ErrorDetails == {"timed out", "connection refused", "unexpected end of input", "bad value"}

\* the steps of the handlers that return an InternalError, each with the
\* variants of InternalError its ? or From can make
FailingSteps ==
    [step : {"token: get_by_client_id", "profile: get_by_id", "activate: activate",
             "login: get_by_client_id", "login: validate_and_return",
             "send_activation_email: get_by_email", "register: register"},
     kind : {"ConnectionPool", "Database"}]
    \cup [step : {"token: is_secret_match", "login: validate_and_return"},
          kind : {"PasswordHash"}]
    \cup [step : {"token: verify_any", "token: create_access_token",
                  "profile: verify_access_token", "activate: verify_activation_code",
                  "login: create_authorization_code",
                  "send_activation_email: create_activation_code"},
          kind : {"Jwt"}]
    \cup [step : {"token: mark_authorization_code_as_used",
                  "send_activation_email: check_rate_limit"},
          kind : {"R2d2", "Redis"}]
    \cup [step : {"send_activation_email: send_activation_email"},
          kind : {"Lettre", "LettreSmtp"}]

\* the response with the text of the error as its body
InternalErrorWithDetail(e) == Wire(500, None, Some(e.detail))

\* impl IntoResponse for InternalError: the error is logged, and the response
\* is 500 with an empty body
InternalErrorIntoResponse(e) == Wire(500, None, None)

\* What the handler of a step answers when the step fails with e: the error
\* is wrapped by ? into the error type of the service function, and the
\* handler makes the response of that.
FailedStepResponse(step, e) ==
    CASE step = "token: verify_any" ->
            \* AccessTokenError::InvalidToken(JwtVerifyError::InternalError(e))
            InternalErrorIntoResponse(e)
      [] step \in {"profile: verify_access_token", "activate: verify_activation_code"} ->
            \* JwtVerifyError::InternalError(e)
            InternalErrorIntoResponse(e)
      [] step = "login: validate_and_return" ->
            \* UserValidationError::InternalError(_) => (500, "")
            Wire(500, None, None)
      [] OTHER ->
            \* AccessTokenError::InternalError(e), RegisterError::InternalError(e),
            \* or the InternalError itself
            InternalErrorIntoResponse(e)

\* A step of a handler fails, and the handler answers.
StepFails ==
    /\ last = NoResponse
    /\ \E f \in FailingSteps, detail \in ErrorDetails :
        LET e == [kind |-> f.kind, detail |-> detail]
        IN  last' = Response("failed", f.step,
                             Some([error |-> e, wire |-> FailedStepResponse(f.step, e)]))
    /\ UNCHANGED <<now, kv, users, tokens, calls, inbox, marks, grants, denied, hits, io, twin>>

NextErrors ==
    \/ StepFails
    \/ Deliver

SpecErrors == Init /\ [][NextErrors]_vars

----------------------------------------------------------------------------
(* The properties. *)

ValidationErrors ==
    {"ClientAuthenticationFailed", "InvalidToken", "ExpiredToken", "UnsupportedGrantType",
     "TokenTypeMismatch", "TokenAudienceMismatch", "RedirectUriMismatch"}

NoMarksFor(code) == \A i \in DOMAIN marks : marks[i].code # code

\* C1: of the access_token calls for one code that run concurrently (none began
\* after another had succeeded), exactly one returns an access token.
C1_ExactlyOneConcurrent ==
    \A i, j \in DOMAIN grants :
        (grants[i].code = grants[j].code /\ ~grants[i].replay /\ ~grants[j].replay) => i = j

\* C2: among the calls of mark_authorization_code_as_used for one code that
\* fall inside the time to live of the record the first of them wrote, the
\* first returns true and every other returns false.
C2_ExactlyOneTrue ==
    \A i, j \in DOMAIN marks :
        ( /\ marks[i].code = marks[j].code
          /\ \A k \in DOMAIN marks : marks[k].code = marks[i].code => i <= k
          /\ marks[j].at < marks[i].at + UsageRecordTtl )
        => (marks[j].created <=> (j = i))

\* C2 witness: two calls in parallel for one code, the first true, the other false.
C2_Witness ==
    /\ Len(marks) = 2
    /\ marks[1].code = marks[2].code
    /\ marks[1].at = marks[2].at
    /\ marks[1].created
    /\ ~marks[2].created

\* C3: once a call has succeeded for a code, no call that begins later
\* succeeds for it, whenever it is made.
C3_AtMostOnce == \A i \in DOMAIN grants : ~grants[i].replay

\* C4: the first redemption of a code issued for c1 returns an access token
\* whose audience is c1, and a redemption of the code that begins after it,
\* with parameters that pass steps 1-7, returns AuthorizationCodeUsed.
C4_EndToEnd ==
    [][\A p \in Procs :
        /\ ( /\ calls[p].pc = "mark" /\ calls'[p].pc = "idle"
             /\ ~calls[p].replay /\ calls[p].params.client_id = "c1"
             /\ last'.result = "Ok" )
           => last'.body[1].access_token.payload.aud = "c1"
        /\ ( /\ calls[p].pc = "mark" /\ calls'[p] # calls[p]
             /\ calls[p].replay /\ Len(marks') > Len(marks) )
           => last'.result = "AuthorizationCodeUsed"]_vars

\* a request whose only fault is its redirect_uri
RedirectOnlyWrong(req) ==
    /\ req.grant_type = "authorization_code"
    /\ req.code = CodeA
    /\ verify_any(CodeA, now).ok
    /\ req.client_id = "c1"
    /\ req.client_secret = "s1"
    /\ req.redirect_uri # "https://app/cb"

\* C5: an access_token call that returns one of the errors of steps 1-7
\* leaves the key-value store as it was, and a request whose only fault is
\* its redirect_uri returns RedirectUriMismatch and writes no usage record.
C5_NoBurn ==
    [][ /\ (last' # last /\ last'.op = "token" /\ last'.result \in ValidationErrors)
              => (kv' = kv /\ marks' = marks)
        /\ (last' # last /\ inbox.op = "token" /\ inbox.db_ok /\ RedirectOnlyWrong(inbox.req))
              => ( /\ last'.result = "RedirectUriMismatch"
                   /\ kv' = kv
                   /\ \A r \in kv' : r.key = UsageKey(CodeA) => CodeA \in Redeemed ) ]_vars

\* C5 witness: the code not redeemed, presented with a wrong redirect_uri,
\* answered RedirectUriMismatch, and no record in the store.
C5_Witness ==
    /\ inbox.op = "token" /\ inbox.db_ok /\ RedirectOnlyWrong(inbox.req)
    /\ last.result = "RedirectUriMismatch"
    /\ grants = <<>>
    /\ kv = {}

\* the request that redeems a code with its client's credentials
CorrectParams(code) ==
    LET client == find_by_client_id(code.payload.aud)[1]
    IN  [grant_type |-> "authorization_code", code |-> code,
         redirect_uri |-> client.redirect_uri, client_id |-> client.client_id,
         client_secret |-> CHOOSE s \in ClientSecrets : client.client_secret = HashPassword(s)]

\* what a redemption of the code with the correct credentials does now
RedeemableNow(code) ==
    /\ access_token_checks(CorrectParams(code), TRUE, now).ok
    /\ mark_authorization_code_as_used(kv, code, now).ret

\* C6: a redemption with a wrong client secret returns
\* ClientAuthenticationFailed and writes nothing to the store, and as long as
\* the code still verifies and no other call has reached step 8 with it, a
\* redemption with the correct secret passes steps 1-7 and step 8.
C6_WrongSecretKeepsCode ==
    [][ /\ denied' # denied
            => (last' = TokenError("ClientAuthenticationFailed") /\ kv' = kv)
        /\ \A c \in denied' :
            ( /\ c.payload.jwt_type = "authorization_code"
              /\ verify_any(c, now').ok
              /\ \A i \in DOMAIN marks' : marks'[i].code # c )
            => RedeemableNow(c)' ]_vars

\* C6 witness: an access token returned for a code that was presented with a
\* wrong secret when no call had reached step 8 with it.
C6_Witness ==
    /\ last.op = "token"
    /\ last.result = "Ok"
    /\ Len(grants) = 1
    /\ grants[1].code \in denied

\* C18: an issued token has the given user id as subject and the instant of
\* issue as issued_at; an authorization code expires 300 s later and an
\* access token 3600 s later, both with the client_id as audience, and an
\* activation code 900 s later with the service name as audience.
C18_IssuancePerKind ==
    last.op = "issue"
    => LET v == verify_any(last.body[1].token, now)
       IN  /\ v.ok
           /\ v.claims.jwt_type = last.result
           /\ v.claims.sub = last.body[1].user_id
           /\ v.claims.iat = now
           /\ last.result = "AuthorizationCode"
                => (v.claims.exp = now + 300 /\ v.claims.aud = last.body[1].client_id)
           /\ last.result = "AccessToken"
                => (v.claims.exp = now + 3600 /\ v.claims.aud = last.body[1].client_id)
           /\ last.result = "ActivationCode"
                => (v.claims.exp = now + 900 /\ v.claims.aud = "agus.dev sso")

\* C18 witness: an activation code issued at 299.
C18_Witness ==
    /\ last.op = "issue"
    /\ last.result = "ActivationCode"
    /\ last.body[1].user_id = "u3"
    /\ now = 299

\* C19: the claims every issuing function signs have expires_at > issued_at,
\* whatever expiry it is given.
C19_ExpiresAfterIssued ==
    (last.op = "create" /\ last.result # "panic")
    => last.body[1].token.payload.exp > last.body[1].token.payload.iat

\* whether the code had been redeemed before the call that last answered
ConsumedBefore(code) ==
    IF last.result = "Ok" THEN grants[Len(grants)].replay ELSE code \in Redeemed

\* the results the fixed order of the eight steps allows for a request
C7_Expected(req) ==
    LET found == find_by_client_id(req.client_id)
        v == verify_any(req.code, now)
    IN  IF found = None THEN {"ClientAuthenticationFailed"}
        ELSE IF found[1].client_secret # HashPassword(req.client_secret)
            THEN {"ClientAuthenticationFailed"}
        ELSE IF ~v.ok THEN {"InvalidToken", "ExpiredToken"}
        ELSE IF req.grant_type # "authorization_code" THEN {"UnsupportedGrantType"}
        ELSE IF v.claims.jwt_type # "AuthorizationCode" THEN {"TokenTypeMismatch"}
        ELSE IF v.claims.aud # req.client_id THEN {"TokenAudienceMismatch"}
        ELSE IF req.redirect_uri # found[1].redirect_uri THEN {"RedirectUriMismatch"}
        ELSE IF ConsumedBefore(req.code) THEN {"AuthorizationCodeUsed"}
        ELSE {"Ok"}

\* C7: with the database, the store and the signer at work, access_token
\* answers with the error of the first failing step of the eight, and with an
\* access token only when all eight pass.
C7_ErrorOrder ==
    (last.op = "token" /\ inbox.db_ok /\ inbox.kv_ok /\ inbox.sign_ok)
    => last.result \in C7_Expected(inbox.req)

\* whether the request names no client or not the client's secret
ClientAuthFails(req) ==
    \/ find_by_client_id(req.client_id) = None
    \/ find_by_client_id(req.client_id)[1].client_secret # HashPassword(req.client_secret)

\* C8: every request that fails client authentication gets one and the same
\* answer, ClientAuthenticationFailed, whatever its code, grant_type and
\* redirect_uri are and whether the client is unknown or the secret wrong,
\* and the service keeps no trace of it.
C8_ClientAuthFirst ==
    (last.op = "token" /\ inbox.db_ok /\ ClientAuthFails(inbox.req))
    => ( /\ last = TokenError("ClientAuthenticationFailed")
         /\ \A p \in Procs : calls[p] = Idle
         /\ Len(marks) = Len(grants) )

\* C8 witness: a registered client with a wrong secret and a code that
\* verifies, answered ClientAuthenticationFailed.
C8_Witness ==
    /\ last.result = "ClientAuthenticationFailed"
    /\ find_by_client_id(inbox.req.client_id) # None
    /\ inbox.req.code = CodeA
    /\ verify_any(CodeA, now).ok
    /\ inbox.req.grant_type = "refresh_token"

\* C9: the access token a successful call returns has kind access_token, the
\* request's client_id as audience, the redeemed code's subject as subject
\* and expires 3600 seconds after it is issued; the response has token_type
\* "Bearer", expires_in 3600 and neither refresh_token nor scope.
C9_MintedToken ==
    [][\A p \in Procs :
        (calls[p].pc = "mark" /\ calls'[p].pc = "idle" /\ Len(grants') > Len(grants))
        => /\ last'.op = "token" /\ last'.result = "Ok"
           /\ LET body == last'.body[1]
                  claims == verify_access_token(body.access_token, now).claims
              IN  /\ verify_access_token(body.access_token, now).ok
                  /\ claims.jwt_type = "AccessToken"
                  /\ claims.aud = calls[p].params.client_id
                  /\ claims.sub = calls[p].params.code.payload.sub
                  /\ claims.iat = now
                  /\ claims.exp = now + 3600
                  /\ body.token_type = "Bearer"
                  /\ body.expires_in = 3600
                  /\ body.refresh_token = None
                  /\ body.scope = None]_vars

\* C9 witness: a call has returned an access token.
C9_Witness ==
    /\ last.op = "token"
    /\ last.result = "Ok"
    /\ last.body[1].access_token \in tokens

\* a token the service signed, not expired now
ValidNow(token) == token \in tokens /\ verify_any(token, now).ok

\* C10: a token that verifies and is of another kind is refused with
\* InvalidToken by verify_access_token and by verify_activation_code, so it
\* neither opens the profile nor activates a user; access_token never returns
\* a token for a code that verifies and is no authorization code, and refuses
\* it with TokenTypeMismatch when the request passes steps 1-4.
C10_KindChecked ==
    /\ \A token \in tokens :
        verify_any(token, now).ok
        => /\ token.payload.jwt_type # "access_token"
                => verify_access_token(token, now) = Err("InvalidToken")
           /\ token.payload.jwt_type # "activation_code"
                => verify_activation_code(token, now) = Err("InvalidToken")
    /\ ( /\ last.op = "profile" /\ ValidNow(inbox.req)
         /\ inbox.req.payload.jwt_type # "access_token" )
       => (last.result = "401 invalid token" /\ last.body = None)
    /\ ( /\ last.op = "activate" /\ ValidNow(inbox.req)
         /\ inbox.req.payload.jwt_type # "activation_code" )
       => (last.result = "401 invalid token" /\ users = InitUsers)
    /\ ( /\ last.op = "token" /\ inbox.db_ok /\ ~ClientAuthFails(inbox.req)
         /\ ValidNow(inbox.req.code) /\ inbox.req.grant_type = "authorization_code"
         /\ inbox.req.code.payload.jwt_type # "authorization_code" )
       => last.result = "TokenTypeMismatch"
    /\ ( /\ last.op = "token" /\ ValidNow(inbox.req.code)
         /\ inbox.req.code.payload.jwt_type # "authorization_code" )
       => (last.result # "Ok" /\ last = TokenError(last.result))

\* C10 witness: an authorization code that verifies, presented as the bearer
\* token of the profile endpoint, and refused.
C10_Witness ==
    /\ last.op = "profile"
    /\ inbox.req = CodeA
    /\ verify_any(CodeA, now).ok
    /\ last.result = "401 invalid token"

\* whether the last call was a verification by the service's own signer
VerifiedByService == last.op = "verify" /\ last.body[1].secret = JwtSecret

\* C11: for every client_id and user_id, the authorization code
\* create_authorization_code has just issued verifies (verify_any), with kind
\* AuthorizationCode and the client_id as audience.
C11_FreshCodeVerifies ==
    (last.op = "issue" /\ last.result = "AuthorizationCode")
    => LET v == verify_any(last.body[1].token, now)
       IN  /\ v.ok
           /\ v.claims.jwt_type = "AuthorizationCode"
           /\ v.claims.aud = last.body[1].client_id

\* C11 witness: a code issued for a client_id of no registered client.
C11_Witness ==
    /\ last.op = "issue"
    /\ last.result = "AuthorizationCode"
    /\ last.body[1].client_id = "cX"
    /\ last.body[1].user_id = "u2"
    /\ now = 300

\* C12: verify(sign(claims)) with the same secret, before expires_at, returns
\* claims equal to the signed ones in every field, for every token kind.
C12_RoundTrip ==
    (VerifiedByService /\ last.body[1].variant = "signed" /\ now < last.body[1].claims.exp)
    => (last.result = "Ok" /\ last.body[1].ret = Some(last.body[1].claims))

\* C12 witness: the claims of an activation code, signed at 0 and verified at 299.
C12_Witness ==
    /\ VerifiedByService
    /\ last.body[1].variant = "signed"
    /\ last.body[1].claims.jwt_type = "ActivationCode"
    /\ last.body[1].claims.iat = 0
    /\ now = 299
    /\ last.body[1].ret # None

\* C13: a token signed with one secret and verified by a signer with another
\* is refused with InvalidToken and yields no claims, whatever its kind and
\* whether or not it has expired.
C13_OtherSecret ==
    ( /\ last.op = "verify"
      /\ \/ (last.body[1].variant = "signed" /\ last.body[1].secret = OtherSecret)
         \/ (last.body[1].variant = "signed_elsewhere" /\ last.body[1].secret = JwtSecret) )
    => (last.result = "InvalidToken" /\ last.body[1].ret = None)

\* C13 witness: an access token another deployment signed, refused here.
C13_Witness ==
    /\ VerifiedByService
    /\ last.body[1].variant = "signed_elsewhere"
    /\ last.body[1].claims.jwt_type = "AccessToken"
    /\ last.result = "InvalidToken"

\* C14 as stated: verify returns no claims at any time now >= expires_at.
C14_ZeroTolerance ==
    (VerifiedByService /\ last.body[1].variant = "signed" /\ now >= last.body[1].claims.exp)
    => last.body[1].ret = None

\* C14: verify returns the claims of a correctly signed token while
\* now <= expires_at + 60, and ExpiredToken with no claims at every later time.
C14_SixtySeconds ==
    (VerifiedByService /\ last.body[1].variant = "signed")
    => IF now > last.body[1].claims.exp + 60
       THEN last.result = "ExpiredToken" /\ last.body[1].ret = None
       ELSE last.result = "Ok" /\ last.body[1].ret = Some(last.body[1].claims)

\* C14 witness: a token that expires at 300 refused at 361.
C14_Witness ==
    /\ VerifiedByService
    /\ last.body[1].variant = "signed"
    /\ last.body[1].claims.exp = 300
    /\ now = 361
    /\ last.result = "ExpiredToken"

\* C15: a correctly signed token past its expiry (and past the tolerance of
\* verify) fails with ExpiredToken and never with InvalidToken, and a
\* structurally corrupted token fails with InvalidToken.
C15_ExpiredOrInvalid ==
    VerifiedByService
    => /\ (last.body[1].variant = "signed" /\ now > last.body[1].claims.exp + 60)
            => last.result = "ExpiredToken"
       /\ last.body[1].variant \in {"tampered", "missing_claim", "no_dots", "bad_header"}
            => last.result = "InvalidToken"

\* C16: verify answers InvalidToken, never InternalError, to a malformed
\* token, a signature that does not match, another algorithm and a wrong
\* issuer.
C16_StructuralIsInvalid ==
    ( /\ VerifiedByService
      /\ \/ last.body[1].variant \in {"tampered", "signed_elsewhere", "other_alg",
                                      "missing_claim", "no_dots", "bad_header"}
         \/ (last.body[1].variant = "wrong_issuer" /\ now <= last.body[1].claims.exp) )
    => last.result = "InvalidToken"

\* whether, at call i, a call for the same key was accepted less than its
\* window ago
WindowOpen(i) ==
    \E j \in 1..(i - 1) :
        /\ hits[j].key = hits[i].key
        /\ hits[j].ret = "true"
        /\ (hits[i].at - hits[j].at) * 1000 < hits[j].window

\* C17: for any key and window, check_rate_limit returns true on the first
\* call for a key, false on every call made before the window has elapsed
\* since an accepted call for that key, and true again on a call made after it.
C17_RateLimitWindow ==
    \A i \in DOMAIN hits :
        hits[i].kv_ok => hits[i].ret = (IF WindowOpen(i) THEN "false" ELSE "true")

\* the eight failures of the token endpoint that are the client's
AccessTokenErrors ==
    {"UnsupportedGrantType", "ClientAuthenticationFailed", "TokenTypeMismatch",
     "TokenAudienceMismatch", "RedirectUriMismatch", "AuthorizationCodeUsed",
     "InvalidToken", "ExpiredToken"}

\* C20: a failed token request is answered 400 unsupported_grant_type for
\* UnsupportedGrantType, 401 invalid_client for ClientAuthenticationFailed
\* and 400 invalid_grant with a description for the six others, and no other
\* of the eight failures is answered with the same status, error and
\* description.
C20_WireErrors ==
    (last.op = "token" /\ last.result \in AccessTokenErrors)
    => LET w == last.body[1]
       IN  /\ last.result = "UnsupportedGrantType"
                => (w.status = 400 /\ w.error = Some("unsupported_grant_type"))
           /\ last.result = "ClientAuthenticationFailed"
                => (w.status = 401 /\ w.error = Some("invalid_client"))
           /\ last.result \notin {"UnsupportedGrantType", "ClientAuthenticationFailed"}
                => ( /\ w.status = 400
                     /\ w.error = Some("invalid_grant")
                     /\ w.error_description # None )
           /\ \A other \in AccessTokenErrors \ {last.result} :
                AccessTokenErrorIntoResponse(other) # w

\* C20 witness: a consumed code answered 400 invalid_grant, "authorization
\* code already used".
C20_Witness ==
    /\ last.op = "token"
    /\ last.result = "AuthorizationCodeUsed"
    /\ last.body = Some(Wire(400, Some("invalid_grant"),
                             Some("authorization code already used")))

\* C21: whatever step of whatever handler fails internally, and whatever the
\* error is, the response is 500 with an empty body: it is the response the
\* token endpoint gives to an internal error, so any two requests that fail
\* internally are answered alike.
C21_OpaqueInternalError ==
    last.op = "failed"
    => /\ last.body[1].wire = Wire(500, None, None)
       /\ last.body[1].wire = AccessTokenErrorIntoResponse("InternalError")

\* C21 witness: the store fails at step 8 of a redemption with a text of its own.
C21_Witness ==
    /\ last.op = "failed"
    /\ last.result = "token: mark_authorization_code_as_used"
    /\ last.body[1].error = [kind |-> "Redis", detail |-> "connection refused"]

\* the external calls of a kind that task p has made for its request
CallsOf(p, kinds) == {i \in DOMAIN io[p] : io[p][i].call \in kinds}

\* C22: a request makes at most one client lookup and sends at most one
\* set-if-absent command to the store, for the usage record as for the
\* rate-limit record; an external call that fails is the last one the request
\* makes, and the request is answered with an internal error, the task idle.
C22_NoRetry ==
    \A p \in Procs :
        /\ Cardinality(CallsOf(p, {"get_by_client_id"})) <= 1
        /\ Cardinality(CallsOf(p, {"SET NX EX"})) <= 1
        /\ \A i \in DOMAIN io[p] :
            ~io[p][i].ok
            => /\ i = Len(io[p])
               /\ calls[p].pc = "idle"
               /\ last.result \in {"InternalError", "500"}

\* C22 witness: the store fails at step 8 of a redemption whose lookup worked.
C22_Witness ==
    /\ last = TokenError("InternalError")
    /\ \E p \in Procs :
        io[p] = <<External("get_by_client_id", TRUE), External("SET NX EX", FALSE)>>

\* whether a login form names a registered client with its redirect_uri and
\* an activated user with their password
Authenticated(table, req) ==
    /\ find_by_client_id(req.client_id) # None
    /\ req.redirect_uri = find_by_client_id(req.client_id)[1].redirect_uri
    /\ find_by_username(table, req.username) # None
    /\ verify_password(req.password, find_by_username(table, req.username)[1].password)
    /\ find_by_username(table, req.username)[1].activated_at # None

\* C27: the login handler hands out an authorization code only to a form
\* whose client is registered, whose redirect_uri is the registered one, whose
\* password verifies and whose user is activated; the code's aud is the form's
\* client_id and its sub the id of that user. Every other form gets no code,
\* and such a form gets one unless a query or the signing fails.
C27_CodeAfterLogin ==
    last.op = "login"
    => /\ last.body # None
            => /\ Authenticated(users, inbox.req)
               /\ last.result = "303 redirect_uri"
               /\ verify_any(last.body[1], now).ok
               /\ LET claims == verify_any(last.body[1], now).claims
                  IN  /\ claims.jwt_type = "AuthorizationCode"
                      /\ claims.aud = inbox.req.client_id
                      /\ claims.sub = find_by_username(users, inbox.req.username)[1].id
               /\ last.body[1] \in tokens
       /\ (Authenticated(users, inbox.req) /\ last.result # "500") => last.body # None

\* C27 witness: alice logs in at client c1 and is redirected with a code.
C27_Witness ==
    /\ last.op = "login"
    /\ inbox.req = [username |-> "alice", password |-> "pw", client_id |-> "c1",
                    redirect_uri |-> "https://app/cb"]
    /\ last.body = Some(oauth2_create_authorization_code("c1", "u1", now))

\* the usage record that step 8 writes for a code at instant t
UsageRecord(code, t) ==
    [key |-> UsageKey(code), value |-> code, expires_at |-> t + UsageRecordTtl]

\* C23: the handlers that make and verify tokens leave the store as it is:
\* login (create_authorization_code), profile (verify_access_token), activate
\* (verify_activation_code) and steps 1 to 7 of a redemption (verify_any)
\* change no record; a redemption adds nothing but the usage record of its
\* code, at step 8, before create_access_token; a request for an activation
\* e-mail (create_activation_code) adds nothing but the record of the rate
\* limiter. No record is removed or changed.
C23_TokensStateless ==
    [][ /\ kv \subseteq kv'
        /\ last'.op \in {"login", "profile", "activate"} => kv' = kv
        /\ (\E p \in Procs : calls[p].pc = "idle" /\ calls'[p].pc = "mark") => kv' = kv
        /\ last'.op = "token"
            => /\ kv' \ kv \subseteq {UsageRecord(inbox.req.code, now)}
               /\ kv' # kv => /\ Len(marks') = Len(marks) + 1
                              /\ marks'[Len(marks')] =
                                    [code |-> inbox.req.code, at |-> now, created |-> TRUE]
        /\ last'.op = "send_activation_email"
            => \A r \in kv' \ kv : r.key = RateKey(inbox.req)
      ]_vars

\* C23 witness: a redemption has verified its code, written the usage record
\* and minted an access token; the store holds the usage record and no token.
C23_Witness ==
    /\ last.op = "token"
    /\ last.result = "Ok"
    /\ last.body[1].access_token \in tokens
    /\ kv = {UsageRecord(inbox.req.code, now)}

\* the consumptions that created a record: the marks that returned true
Consumptions == {i \in DOMAIN marks : marks[i].created}

\* C24: every record of the store is the usage record of exactly one
\* consumption: its key is "authorization_token:" + code, its value the code,
\* and it expires 5 minutes after that consumption; a key has one record; the
\* record of a consumption is there until those 5 minutes are over; and a
\* record leaves the store only when the clock reaches its expiry, unchanged
\* until then.
C24_UsageRecord ==
    /\ [](\A r \in kv :
            /\ r.expires_at > now
            /\ Cardinality({i \in Consumptions :
                                r = UsageRecord(marks[i].code, marks[i].at)}) = 1
            /\ \A q \in kv : q.key = r.key => q = r)
    /\ [](\A i \in Consumptions :
            marks[i].at + UsageRecordTtl > now
            => UsageRecord(marks[i].code, marks[i].at) \in kv)
    /\ [][\A r \in kv : IF r.expires_at > now' THEN r \in kv' ELSE now' > now]_vars

\* C24 witness: a code was consumed at instant 0 and again at instant 300, and
\* the store holds the record of the second consumption only.
C24_Witness ==
    /\ Len(marks) = 2
    /\ marks[1] = [code |-> marks[2].code, at |-> 0, created |-> TRUE]
    /\ marks[2].at = 300
    /\ marks[2].created
    /\ kv = {UsageRecord(marks[2].code, 300)}

\* C25: every record in the store was written by an accepted check_rate_limit
\* call for its key: its value is its key, the caller's string, and from that
\* call it lives for the caller's window.
C25_RateRecord ==
    \A r \in kv :
        /\ r.key \in RateKeys
        /\ r.value = r.key
        /\ \E i \in DOMAIN hits :
            /\ hits[i].ret = "true"
            /\ hits[i].key = r.key
            /\ (r.expires_at - hits[i].at) * 1000 = hits[i].window

\* the keys a store holds, each with its expiry
Held(store) == {[key |-> r.key, expires_at |-> r.expires_at] : r \in store}

\* C26: given the same calls at the same instants,
\* mark_authorization_code_as_used(code) and
\* check_rate_limit("authorization_token:" + code, 5 minutes) return the same
\* booleans, and their stores hold the same keys with the same expiries.
C26_SamePrimitive ==
    /\ Len(marks) = Len(hits)
    /\ \A i \in DOMAIN marks :
        /\ hits[i].key = UsageKey(marks[i].code)
        /\ hits[i].ret = (IF marks[i].created THEN "true" ELSE "false")
    /\ Held(kv) = Held(twin)

\* C26 witness: a code marked at instant 0, refused at instant 299 and marked
\* again at instant 300, by both.
C26_Witness ==
    /\ Len(marks) = 3
    /\ marks[1] = [code |-> marks[2].code, at |-> 0, created |-> TRUE]
    /\ marks[2] = [code |-> marks[3].code, at |-> 299, created |-> FALSE]
    /\ marks[3].at = 300
    /\ marks[3].created
    /\ hits[3].ret = "true"
    /\ twin # {}

\* whether a token request comes from a registered client with its secret and
\* presents, as an authorization code, a code that verifies and was issued
\* for another client
PresentsAnothersCode(req, t) ==
    /\ find_by_client_id(req.client_id) # None
    /\ is_secret_match(find_by_client_id(req.client_id)[1], req.client_secret)
    /\ req.grant_type = "authorization_code"
    /\ verify_any(req.code, t).ok
    /\ verify_any(req.code, t).claims.jwt_type = "AuthorizationCode"
    /\ verify_any(req.code, t).claims.aud # req.client_id

\* C28: a token request of an authenticated client that presents a valid
\* authorization code issued for another client is answered
\* TokenAudienceMismatch before step 8, the store and the marks as they were;
\* a request answered with an access token came from the client the code was
\* issued for, and every access token there is has the aud and the sub of an
\* authorization code that was issued.
C28_AudienceBound ==
    /\ []( (last.op = "token" /\ inbox.db_ok /\ PresentsAnothersCode(inbox.req, now))
            => /\ last = TokenError("TokenAudienceMismatch")
               /\ \A p \in Procs : calls[p] = Idle )
    /\ []( (last.op = "token" /\ last.result = "Ok")
            => /\ inbox.req.code \in tokens
               /\ inbox.req.code.payload.jwt_type = "authorization_code"
               /\ inbox.req.code.payload.aud = inbox.req.client_id
               /\ last.body[1].access_token.payload.aud = inbox.req.client_id
               /\ last.body[1].access_token.payload.sub = inbox.req.code.payload.sub )
    /\ [](\A t \in tokens :
            t.payload.jwt_type = "access_token"
            => \E c \in tokens :
                /\ c.payload.jwt_type = "authorization_code"
                /\ c.payload.aud = t.payload.aud
                /\ c.payload.sub = t.payload.sub)
    /\ [][ (last'.op = "token" /\ inbox.db_ok /\ PresentsAnothersCode(inbox.req, now))
            => (kv' = kv /\ marks' = marks /\ grants' = grants /\ tokens' = tokens) ]_vars

\* C28 witness: client c2, with its secret and its redirect_uri, presents the
\* code issued for c1 while it is valid and unused; it is refused and the
\* store stays empty.
C28_Witness ==
    /\ last = TokenError("TokenAudienceMismatch")
    /\ inbox.req = [grant_type |-> "authorization_code", code |-> CodeA,
                    redirect_uri |-> "https://other/cb", client_id |-> "c2",
                    client_secret |-> "s2"]
    /\ verify_any(CodeA, now).ok
    /\ kv = {}
    /\ marks = <<>>

Rejected ==
    \/ /\ Len(marks') = Len(marks) + 1
       /\ ~marks'[Len(marks')].created
    \/ /\ Len(hits') = Len(hits) + 1
       /\ hits'[Len(hits')].ret = "false"

\* C30: a call of mark_authorization_code_as_used or of check_rate_limit that
\* returns false leaves the store as it is, the record with its value and its
\* expiry; and a call is accepted exactly when every call accepted before it
\* for the same key has its time to live behind it, however many calls were
\* rejected in between.
C30_RejectedChangesNothing ==
    /\ [][Rejected => (kv' = kv /\ twin' = twin)]_vars
    /\ [](\A i \in DOMAIN marks :
            marks[i].created
            <=> \A j \in 1..(i - 1) :
                    (marks[j].code = marks[i].code /\ marks[j].created)
                    => marks[j].at + UsageRecordTtl <= marks[i].at)
    /\ [](\A i \in DOMAIN hits :
            hits[i].ret # "InternalError"
            => ( hits[i].ret = "true"
                 <=> \A j \in 1..(i - 1) :
                         (hits[j].key = hits[i].key /\ hits[j].ret = "true")
                         => hits[j].at + num_seconds(hits[j].window) <= hits[i].at ))

\* C30 witness: a code marked at instant 0 and refused at instant 299, by
\* both functions; the records still expire at instant 300.
C30_Witness ==
    /\ Len(marks) = 2
    /\ marks[2] = [code |-> marks[1].code, at |-> 299, created |-> FALSE]
    /\ hits[2].ret = "false"
    /\ kv = {UsageRecord(marks[1].code, 0)}
    /\ Held(twin) = {[key |-> UsageKey(marks[1].code), expires_at |-> UsageRecordTtl]}

\* whether a login form names a registered client with its redirect_uri
ClientAccepted(req) ==
    /\ find_by_client_id(req.client_id) # None
    /\ req.redirect_uri = find_by_client_id(req.client_id)[1].redirect_uri

\* whether a login form names no user, or a user with another password
CredentialsFail(table, req) ==
    \/ find_by_username(table, req.username) = None
    \/ ~verify_password(req.password, find_by_username(table, req.username)[1].password)

\* where the response to a login sends the browser when it hands out no code
LoginLocation(status, req) ==
    CASE status = "303 invalid_credentials" -> Some(login_uri("invalid_credentials", req))
      [] status = "303 not_activated" -> Some(login_uri("not_activated", req))
      [] OTHER -> None

\* C34: with the client accepted and the queries at work, a login form whose
\* username is unknown or whose password is wrong, the user activated or not,
\* is redirected with error=invalid_credentials and gets no code; every other
\* failing form for the same client gets the very same status and location,
\* whichever check failed; and not_activated is answered only to a user who
\* exists, is not activated and gave the right password.
C34_CredentialChecksAlike ==
    (last.op = "login" /\ ClientAccepted(inbox.req) /\ last.result # "500")
    => /\ CredentialsFail(users, inbox.req)
            => /\ last.result = "303 invalid_credentials"
               /\ last.body = None
               /\ \A other \in LoginForms :
                    ( /\ other.client_id = inbox.req.client_id
                      /\ other.redirect_uri = inbox.req.redirect_uri
                      /\ CredentialsFail(users, other) )
                    => /\ login(users, other, TRUE, TRUE, TRUE, now)
                            = [status |-> last.result, code |-> last.body]
                       /\ LoginLocation(login(users, other, TRUE, TRUE, TRUE, now).status, other)
                            = LoginLocation(last.result, inbox.req)
       /\ last.result = "303 not_activated"
            => /\ find_by_username(users, inbox.req.username) # None
               /\ verify_password(inbox.req.password,
                                  find_by_username(users, inbox.req.username)[1].password)
               /\ find_by_username(users, inbox.req.username)[1].activated_at = None
       /\ last.result = "303 invalid_credentials" => CredentialsFail(users, inbox.req)

\* C34 witness: carol, who is not activated, gives a wrong password and is
\* told invalid_credentials.
C34_Witness ==
    /\ last.op = "login"
    /\ inbox.req = [username |-> "carol", password |-> "bad", client_id |-> "c1",
                    redirect_uri |-> "https://app/cb"]
    /\ find_by_username(users, "carol")[1].activated_at = None
    /\ last.result = "303 invalid_credentials"

\* the record the rate limiter writes for an address at instant t
SlotRecord(email, t) ==
    [key |-> RateKey(email), value |-> RateKey(email),
     expires_at |-> t + num_seconds(ActivationEmailWindow)]

\* whether a task has called the SMTP transport for its request
SmtpCalled == \E p \in Procs : CallsOf(p, {"smtp send"}) # {}

\* C32: send_activation_email asks the rate limiter first and looks the user
\* up second. A request that passes the gate mails an activation code only to
\* a user who exists and is not activated, and the code is that user's; for
\* an address nobody has and for an activated user it answers 200 and calls
\* no mail transport; and whatever follows the gate (no user, an activated
\* user, a mail sent, a query, a signing or a sending that fails) the slot's
\* record is in the store for one minute. A request the gate refuses looks
\* nobody up and sends nothing.
C32_SlotBeforeLookup ==
    last.op = "send_activation_email"
    => LET gate == hits[Len(hits)].ret
           user == find_by_email(users, inbox.req)
       IN  /\ \A p \in Procs : \A i \in DOMAIN io[p] :
                io[p][i].call = "get_by_email"
                => (i = 2 /\ io[p][1] = External("SET NX EX", TRUE) /\ gate = "true")
           /\ gate = "true"
                => /\ SlotRecord(inbox.req, now) \in kv
                   /\ last.body # None
                        => /\ user # None
                           /\ user[1].activated_at = None
                           /\ last.result = "200"
                           /\ last.body[1] = create_activation_code(user[1].id, now)
                   /\ (inbox.db_ok /\ (user = None \/ user[1].activated_at # None))
                        => (last.result = "200" /\ last.body = None /\ ~SmtpCalled)
                   /\ (inbox.db_ok /\ inbox.sign_ok /\ user # None /\ user[1].activated_at = None)
                        => /\ SmtpCalled
                           /\ last.body = None => last.result = "500"
           /\ gate # "true"
                => (last.body = None /\ ~SmtpCalled /\ last.result \in {"429", "500"})

\* C32 witness: a request for an address nobody has passes the gate, is
\* answered 200 with no mail sent, and has taken the slot.
C32_Witness ==
    /\ last = Response("send_activation_email", "200", None)
    /\ inbox.req = "nobody@x"
    /\ find_by_email(users, "nobody@x") = None
    /\ hits[Len(hits)].ret = "true"
    /\ kv = {SlotRecord("nobody@x", now)}

\* the requests that passed the rate limit
Passed == {i \in DOMAIN hits : hits[i].ret = "true"}

\* C31: whatever the interleaving of the tasks that serve send_activation_email
\* for an address, two requests that pass the rate limit for it are a minute
\* or more apart; a request made less than a minute after one that passed,
\* the store at work, is refused; a refused request is answered 429 at once,
\* its task idle, with no user looked up and nothing mailed; and no more
\* mails are sent than requests have passed.
C31_OnePerWindow ==
    /\ [](\A i, j \in Passed :
            (i < j /\ hits[i].key = hits[j].key)
            => hits[j].at - hits[i].at >= num_seconds(ActivationEmailWindow))
    /\ [](\A j \in DOMAIN hits :
            ( /\ hits[j].kv_ok
              /\ \E i \in Passed :
                    /\ i < j
                    /\ hits[i].key = hits[j].key
                    /\ hits[j].at - hits[i].at < num_seconds(ActivationEmailWindow) )
            => hits[j].ret = "false")
    /\ [](Cardinality(tokens) <= Cardinality(Passed))
    /\ [][ (Len(hits') = Len(hits) + 1 /\ hits'[Len(hits')].ret = "false")
            => /\ last' = Response("send_activation_email", "429", None)
               /\ calls' = calls
               /\ tokens' = tokens
               /\ \E p \in Procs : /\ calls'[p].pc = "idle"
                                  /\ io'[p] = <<External("SET NX EX", TRUE)>> ]_vars
    /\ [][ tokens' # tokens
            => \E p \in Procs :
                /\ calls[p].pc = "lookup"
                /\ \E i \in Passed : hits[i].key = RateKey(calls[p].params) ]_vars

\* C31 witness: two requests for carol at the same instant, the second one
\* arriving while the first awaits the query of the user: the first passed,
\* the second is answered 429.
C31_Witness ==
    /\ Len(hits) = 2
    /\ hits[1].key = RateKey("carol@x")
    /\ hits[2].key = RateKey("carol@x")
    /\ hits[1].ret = "true"
    /\ hits[2].ret = "false"
    /\ hits[2].at = hits[1].at
    /\ \E p \in Procs : calls[p].pc = "lookup" /\ calls[p].params = "carol@x"
    /\ last = Response("send_activation_email", "429", None)

\* the activation codes handed out whose 15 minutes are not over at instant t
FreshActivationCodes(t) ==
    {c \in tokens : c.payload.jwt_type = "activation_code" /\ c.payload.exp >= t}

\* C33: no step removes a user or changes a user whose activated_at is set;
\* a step changes a user only by setting a null activated_at to the instant
\* of an activate request that is answered 200; and an activation code
\* presented again within its 15 minutes, its user activated, is answered 200
\* with the users table as it was.
C33_ActivationMonotonic ==
    /\ [][ \A id \in DOMAIN users :
            /\ id \in DOMAIN users'
            /\ users[id].activated_at # None => users'[id] = users[id]
            /\ users'[id] # users[id]
                => /\ users[id].activated_at = None
                   /\ users'[id] = [users[id] EXCEPT !.activated_at = Some(now)]
                   /\ last' = Response("activate", "200", None) ]_vars
    /\ [](\A code \in FreshActivationCodes(now) :
            ( /\ code.payload.sub \in DOMAIN users
              /\ users[code.payload.sub].activated_at # None )
            => activate(users, code, TRUE, now) = [status |-> "200", table |-> users])

\* C33 witness: carol, activated at instant 0, presents her code again at
\* instant 59 and is answered 200; she is still activated at instant 0.
C33_Witness ==
    /\ last = Response("activate", "200", None)
    /\ now = 59
    /\ DOMAIN users = UserIds
    /\ users["u3"].activated_at = Some(0)
    /\ \A code \in FreshActivationCodes(now) : code.payload.sub = "u3"

====
